---- MODULE Spec2Model ----
(***************************************************************************)
(* State-machine model of the useGeminiLive session hook (the              *)
(* calendar-enabled version, src/components/Auth.tsx lines 633-973): the   *)
(* connect / disconnect life cycle, the transport callbacks, the capture   *)
(* and video timers, the playback scheduler and the tool dispatcher.       *)
(*                                                                         *)
(* JavaScript is single-threaded: every action below is one run of a       *)
(* handler from the point it is entered (or resumed) up to its next await  *)
(* (or its end).  A connect() invocation, the transport it opens, the      *)
(* AudioContexts it creates, the microphone stream it acquires, the        *)
(* capture processor and the video interval its onopen timer creates are   *)
(* all identified by the number of the invocation, 1..MaxConnects; 0 is    *)
(* null.                                                                   *)
(***************************************************************************)
EXTENDS Integers, Sequences, FiniteSets, TLC

\* ---------------------------------------------------------------- bounds
MaxConnects == 2      \* connect() invocations in one run of the life cycle
MaxSessions == 1      \* sessions in one run of the scheduler or dispatcher
MaxMessages == 2      \* inbound transport messages in one run
MaxClock == 3         \* largest value of an AudioContext's currentTime
MaxTranscript == 2    \* transcript pieces kept before appends are cut off
MaxActivations == 2   \* SpeechRecognition instances the wake-word effect creates
MaxManagers == 2      \* CalendarManager instances constructed
MaxEvents == 2        \* calendar events scheduled
MaxTime == 4          \* seconds the calendar's clock runs

ConnectIds == 1..MaxConnects
SessionIds == 1..MaxSessions
HandlerIds == 1..MaxMessages
ActivationIds == 1..MaxActivations
ManagerIds == 1..MaxManagers
EventIds == 1..MaxEvents
Times == 0..MaxTime

\* `3600000`: completed events are listed for one hour, in seconds.
Hour == 3600

\* ------------------------------------------------------------- constants
DISCONNECTED == "DISCONNECTED"
CONNECTING == "CONNECTING"
CONNECTED == "CONNECTED"
ERROR == "ERROR"

NoError == "null"
ErrApiKey == "API Key is missing."
ErrFailed == "Failed to connect"
ErrConnection == "Connection error. The session was interrupted."

\* The connectionState that connect's closure sees.  connect is memoised with
\* useCallback(..., [disconnect, onAudioData]); both dependencies are stable
\* (Dashboard passes a memoised handleAudioData), so the closure is the one of
\* the first render, where connectionState is its initial value.
closureConnectionState == DISCONNECTED

VARIABLES
  apiKey,                 \* process.env.API_KEY is set
  connectionState, error, transcript,
  sessionRef,
  inputAudioContextRef, outputAudioContextRef, outputGainRef,
  inputSourceRef, processorRef, videoIntervalRef,
  nextStartTimeRef, activeSourcesRef,
  cpc,                    \* where each connect() invocation stands
  cprior,                 \* the session a connect() is tearing down first
  cvideo,                 \* the videoElement argument of each connect()
  dpc,                    \* the disconnect() that closed each session: none,
                          \* awaitClose (suspended), done, threw (close threw)
  tstate,                 \* each transport: none, opening, open, closed, failed
  closeCalls,             \* how often session.close() was invoked
  oncloseFired,           \* the transports whose onclose callback has run
  timer,                  \* each onopen's setTimeout: none, pending, fired
  micHeld,                \* microphone streams acquired and not released
  processors,             \* capture processors still connected to the graph
  procCtx,                \* the AudioContext each processor was created on
  intervals,              \* video intervals still set
  closedContexts,         \* AudioContexts that were closed
  ctxTime,                \* currentTime of each output AudioContext
  sources,                \* every buffer source ever started, in start order
  interruptedSince,       \* an interrupted signal was handled since the last start
  handlers,               \* the onmessage invocations with audio or tool calls
  responses,              \* the sendToolResponse calls that returned, in order
  frames,                 \* the sendRealtimeInput calls that were made
  directoryHandle,        \* FileSystemManager.directoryHandle is set
  isFileSystemReady,
  mpc,                    \* where mountDirectory() stands
  fsOps,                  \* the tool calls that reached the mounted directory
  effDeps,                \* isConnected / isConnecting of the last commit of
                          \* Dashboard: unmounted, neither, connecting, connected
  recRef,                 \* the recognition the last wake-word effect created
  rstate,                 \* each recognition: none, listening, stopping, ended
  rconnects,              \* the connect() calls each recognition has made
  wallClock,              \* the wall clock, in seconds
  managers,               \* the CalendarManager instances constructed so far
  events,                 \* each manager's events: absent, todo, done (completed)
  eventTime,              \* the time of each event, -1 before it is scheduled
  checkInterval,          \* the time each manager's monitor ticks next
  localStorage,           \* the item gemini_avatar_events
  alarms,                 \* how often triggerAlarm ran for each event
  eventTitle,             \* the title of each event
  calResult,              \* what the last operation on calendarManager.current
                          \* returned or threw, and the argument it was given
  animationFrame,         \* the updateVolume of each connect(): requested (an
                          \* animation frame is requested for it), returned
  volumes,                \* the values passed to onAudioData, by connect()
  last                    \* the action that made the last step

hookVars == <<connectionState, error, transcript, sessionRef>>
audioVars == <<inputAudioContextRef, outputAudioContextRef, outputGainRef,
               inputSourceRef, processorRef, videoIntervalRef,
               processors, procCtx, intervals, closedContexts, micHeld>>
playVars == <<nextStartTimeRef, activeSourcesRef, sources, ctxTime, interruptedSince>>
connVars == <<cpc, cprior, cvideo, dpc, tstate, closeCalls, oncloseFired, timer>>
msgVars == <<handlers, responses>>
\* What the handlers of connect(), disconnect() and the transport leave alone.
fileVars == <<directoryHandle, isFileSystemReady, mpc>>
wakeVars == <<effDeps, recRef, rstate, rconnects>>
calVars == <<wallClock, managers, events, eventTime, checkInterval, localStorage,
             alarms, eventTitle, calResult>>
volVars == <<animationFrame, volumes>>
otherVars == <<frames, fileVars, fsOps, wakeVars, calVars, volVars>>
vars == <<apiKey, hookVars, audioVars, playVars, connVars, msgVars, otherVars,
          last>>

NoHandler == [pc |-> "none"]

\* The hook and the Dashboard after their first render.
InitHook ==
  /\ apiKey \in BOOLEAN
  /\ connectionState = DISCONNECTED
  /\ error = NoError
  /\ transcript = <<>>
  /\ sessionRef = 0
  /\ inputAudioContextRef = 0 /\ outputAudioContextRef = 0 /\ outputGainRef = 0
  /\ inputSourceRef = 0 /\ processorRef = 0 /\ videoIntervalRef = 0
  /\ nextStartTimeRef = 0 /\ activeSourcesRef = {}
  /\ cpc = [i \in ConnectIds |-> "idle"]
  /\ cprior = [i \in ConnectIds |-> 0]
  /\ cvideo = [i \in ConnectIds |-> FALSE]
  /\ dpc = [i \in ConnectIds |-> "none"]
  /\ tstate = [i \in ConnectIds |-> "none"]
  /\ closeCalls = [i \in ConnectIds |-> 0]
  /\ oncloseFired = {}
  /\ timer = [i \in ConnectIds |-> "none"]
  /\ micHeld = {}
  /\ processors = {}
  /\ procCtx = [i \in ConnectIds |-> 0]
  /\ intervals = {}
  /\ closedContexts = {}
  /\ ctxTime = [i \in ConnectIds |-> 0]
  /\ sources = <<>>
  /\ interruptedSince = FALSE
  /\ handlers = [h \in HandlerIds |-> NoHandler]
  /\ responses = <<>>
  /\ frames = {}
  /\ directoryHandle = FALSE
  /\ isFileSystemReady = FALSE
  /\ mpc = "idle"
  /\ fsOps = {}
  /\ effDeps = "unmounted"
  /\ recRef = 0
  /\ rstate = [a \in ActivationIds |-> "none"]
  /\ rconnects = [a \in ActivationIds |-> 0]
  /\ animationFrame = [i \in ConnectIds |-> "requested"]
  /\ volumes = [i \in ConnectIds |-> {}]
  /\ last = "init"

NoTitle == <<>>
NoResult == [text |-> "none", items |-> <<>>, arg |-> <<>>]

\* The first CalendarManager, constructed with nothing in localStorage.
InitCalendar ==
  /\ wallClock = 0
  /\ managers = {1}
  /\ events = [m \in ManagerIds |-> [e \in EventIds |-> "absent"]]
  /\ eventTime = [e \in EventIds |-> -1]
  /\ eventTitle = [e \in EventIds |-> NoTitle]
  /\ checkInterval = [m \in ManagerIds |-> IF m = 1 THEN 1 ELSE 0]
  /\ localStorage = [e \in EventIds |-> "absent"]
  /\ alarms = [e \in EventIds |-> 0]
  /\ calResult = NoResult

Init == InitHook /\ InitCalendar

\* ------------------------------------------------- stopAudioProcessing
\* The sources of activeSourcesRef are stopped; the set is cleared.
stopSources(srcs, active) ==
  [s \in DOMAIN srcs |->
     IF s \in active THEN [srcs[s] EXCEPT !.st = "stopped"] ELSE srcs[s]]

stopAudioProcessing ==
  /\ processors' = processors \ {processorRef}
  /\ processorRef' = 0
  /\ inputSourceRef' = 0
  /\ closedContexts' =
       closedContexts \cup ({inputAudioContextRef, outputAudioContextRef} \ {0})
  /\ inputAudioContextRef' = 0
  /\ outputAudioContextRef' = 0
  /\ intervals' = intervals \ {videoIntervalRef}
  /\ videoIntervalRef' = 0
  /\ sources' = stopSources(sources, activeSourcesRef)
  /\ activeSourcesRef' = {}
  /\ UNCHANGED <<outputGainRef, procCtx, micHeld>>

\* What stopAudioProcessing leaves alone when disconnect() suspends first.
noTeardown ==
  UNCHANGED <<inputAudioContextRef, outputAudioContextRef, outputGainRef,
              inputSourceRef, processorRef, videoIntervalRef, processors,
              procCtx, intervals, closedContexts, micHeld, sources,
              activeSourcesRef>>

\* ------------------------------------------------------------ disconnect
\* A disconnect() without its setConnectionState(DISCONNECTED).
disconnectKeepsState(throws, cs, tr, ts) ==
  /\ sessionRef' = 0
  /\ closeCalls' = IF sessionRef # 0
                   THEN [closeCalls EXCEPT ![sessionRef] = @ + 1]
                   ELSE closeCalls
  /\ tstate' = IF sessionRef # 0 /\ ~throws
               THEN [ts EXCEPT ![sessionRef] =
                       IF @ \in {"opening", "open"} THEN "closed" ELSE @]
               ELSE ts
  /\ dpc' = IF sessionRef # 0
            THEN [dpc EXCEPT ![sessionRef] =
                    IF throws THEN "threw" ELSE "awaitClose"]
            ELSE dpc
  /\ IF sessionRef # 0 /\ ~throws THEN noTeardown ELSE stopAudioProcessing
  /\ connectionState' = cs
  /\ transcript' = IF sessionRef # 0 /\ ~throws THEN tr ELSE <<>>

\* A disconnect() that leaves the session in sessionRef while it awaits
\* session.close().
disconnectKeepsHandle(throws, cs, tr, ts) ==
  IF sessionRef # 0 /\ ~throws
  THEN /\ sessionRef' = sessionRef
       /\ closeCalls' = [closeCalls EXCEPT ![sessionRef] = @ + 1]
       /\ tstate' = [ts EXCEPT ![sessionRef] =
                       IF @ \in {"opening", "open"} THEN "closed" ELSE @]
       /\ dpc' = [dpc EXCEPT ![sessionRef] = "awaitClose"]
       /\ connectionState' = cs
       /\ transcript' = tr
       /\ noTeardown
  ELSE /\ sessionRef' = 0
       /\ closeCalls' = IF sessionRef # 0
                        THEN [closeCalls EXCEPT ![sessionRef] = @ + 1]
                        ELSE closeCalls
       /\ tstate' = ts
       /\ dpc' = IF sessionRef # 0
                 THEN [dpc EXCEPT ![sessionRef] = "threw"]
                 ELSE dpc
       /\ stopAudioProcessing
       /\ connectionState' = DISCONNECTED
       /\ transcript' = <<>>

\* One call of disconnect(), up to its await or, when it does not suspend,
\* to its end.  cs, tr and ts are connectionState, transcript and tstate as
\* the caller left them; throws says whether session.close() throws.
\* With a session in sessionRef and a close that returns, the call suspends
\* on `await session.close()` and DisconnectResume finishes it.
disconnect(throws, cs, tr, ts) ==
  IF sessionRef # 0 /\ ~throws
  THEN /\ sessionRef' = 0
       /\ closeCalls' = [closeCalls EXCEPT ![sessionRef] = @ + 1]
       /\ tstate' = [ts EXCEPT ![sessionRef] =
                       IF @ \in {"opening", "open"} THEN "closed" ELSE @]
       /\ dpc' = [dpc EXCEPT ![sessionRef] = "awaitClose"]
       /\ connectionState' = cs
       /\ transcript' = tr
       /\ noTeardown
  ELSE /\ sessionRef' = 0
       /\ closeCalls' = IF sessionRef # 0
                        THEN [closeCalls EXCEPT ![sessionRef] = @ + 1]
                        ELSE closeCalls
       /\ tstate' = ts
       /\ dpc' = IF sessionRef # 0
                 THEN [dpc EXCEPT ![sessionRef] = "threw"]
                 ELSE dpc
       /\ stopAudioProcessing
       /\ connectionState' = DISCONNECTED
       /\ transcript' = <<>>

\* session.close() can only throw when there is a session to close.
Throws == IF sessionRef # 0 THEN BOOLEAN ELSE {FALSE}

\* The values of `last` after a disconnect() call of the hook's user that
\* suspended on closing session s, and after one that has run to its end with
\* no other step since it was called.
suspendedOn(s) == "DisconnectSuspended" \o ToString(s)
disconnectCompleted == {"Disconnect", "DisconnectAgain", "DisconnectResume"}

\* The hook's user (the connection button) calls disconnect().
Disconnect ==
  /\ \E throws \in Throws :
       /\ disconnect(throws, connectionState, transcript, tstate)
       /\ last' = IF sessionRef # 0 /\ ~throws THEN suspendedOn(sessionRef)
                  ELSE IF last \in disconnectCompleted THEN "DisconnectAgain"
                  ELSE "Disconnect"
  /\ UNCHANGED <<apiKey, otherVars, error, cpc, cprior, cvideo, oncloseFired, timer,
                 nextStartTimeRef, ctxTime, interruptedSince, msgVars>>

\* `await session.close()` returns: the rest of disconnect() runs.
DisconnectResume(s) ==
  /\ dpc[s] = "awaitClose"
  /\ dpc' = [dpc EXCEPT ![s] = "done"]
  /\ stopAudioProcessing
  /\ connectionState' = DISCONNECTED
  /\ transcript' = <<>>
  /\ last' = IF last = suspendedOn(s) THEN "DisconnectResume" ELSE "resumed"
  /\ UNCHANGED <<apiKey, otherVars, error, sessionRef, cpc, cprior, cvideo, tstate,
                 closeCalls, oncloseFired, timer, nextStartTimeRef, ctxTime,
                 interruptedSince, msgVars>>

\* --------------------------------------------------------------- connect
\* connect() from `setConnectionState(CONNECTING)` to `await getUserMedia`:
\* the AudioContexts, analyser and gain node of invocation i are created.
connectSetup(i) ==
  /\ connectionState' = CONNECTING
  /\ error' = NoError
  /\ inputAudioContextRef' = i
  /\ outputAudioContextRef' = i
  /\ outputGainRef' = i
  /\ cpc' = [cpc EXCEPT ![i] = "awaitMic"]

\* connect(videoElement) up to its first await: invocation i is the next
\* unused one.
connect(i, video) ==
  /\ cpc[i] = "idle"
  /\ \A j \in ConnectIds : j < i => cpc[j] # "idle"
  /\ cvideo' = [cvideo EXCEPT ![i] = video]
  /\ IF ~apiKey
     THEN /\ error' = ErrApiKey
          /\ cpc' = [cpc EXCEPT ![i] = "returned"]
          /\ UNCHANGED <<connectionState, transcript, sessionRef, audioVars,
                         playVars, cprior, dpc, tstate, closeCalls>>
     ELSE IF sessionRef # 0
     THEN /\ \E throws \in Throws :
               disconnect(throws, connectionState, transcript, tstate)
          /\ cprior' = [cprior EXCEPT ![i] = sessionRef]
          /\ cpc' = [cpc EXCEPT ![i] = "awaitDisconnect"]
          /\ UNCHANGED <<error, nextStartTimeRef, ctxTime, interruptedSince>>
     ELSE /\ connectSetup(i)
          /\ UNCHANGED <<transcript, sessionRef, inputSourceRef, processorRef,
                         videoIntervalRef, processors, procCtx, intervals,
                         closedContexts, micHeld, playVars, cprior, dpc,
                         tstate, closeCalls>>
  /\ UNCHANGED <<apiKey, oncloseFired, timer, msgVars>>

\* The hook's user (the connection button) calls connect(videoElement).
Connect(i, video) ==
  /\ connect(i, video)
  /\ last' = "Connect"
  /\ UNCHANGED otherVars

\* `await disconnect()` returns in connect(): the set-up follows.
ConnectResume(i) ==
  /\ cpc[i] = "awaitDisconnect"
  /\ dpc[cprior[i]] \in {"done", "threw"}
  /\ connectSetup(i)
  /\ last' = "ConnectResume"
  /\ UNCHANGED <<apiKey, otherVars, transcript, sessionRef, inputSourceRef, processorRef,
                 videoIntervalRef, processors, procCtx, intervals,
                 closedContexts, micHeld, playVars, cprior, cvideo, dpc,
                 tstate, closeCalls, oncloseFired, timer, msgVars>>

\* getUserMedia resolves with stream i; ai.live.connect() starts transport i
\* and connect() suspends on `await sessionPromise`.
MicGranted(i) ==
  /\ cpc[i] = "awaitMic"
  /\ micHeld' = micHeld \cup {i}
  /\ tstate' = [tstate EXCEPT ![i] = "opening"]
  /\ cpc' = [cpc EXCEPT ![i] = "awaitSession"]
  /\ last' = "MicGranted"
  /\ UNCHANGED <<apiKey, otherVars, hookVars, inputAudioContextRef, outputAudioContextRef,
                 outputGainRef, inputSourceRef, processorRef, videoIntervalRef,
                 processors, procCtx, intervals, closedContexts, playVars,
                 cprior, cvideo, dpc, closeCalls, oncloseFired, timer, msgVars>>

\* A catch block that reports the failure and stops there, without the
\* disconnect() that takes the state back to DISCONNECTED.
connectCatchNoTeardown(i, ts) ==
  /\ error' = ErrFailed
  /\ connectionState' = ERROR
  /\ tstate' = ts
  /\ cpc' = [cpc EXCEPT ![i] = "failed"]
  /\ UNCHANGED <<apiKey, otherVars, transcript, sessionRef, audioVars, playVars, cprior,
                 cvideo, dpc, closeCalls, oncloseFired, timer, msgVars>>

\* A catch block that, after its teardown, takes up the set-up of the same
\* call again.
connectCatchRetries(i, ts) ==
  /\ error' = ErrFailed
  /\ \E throws \in Throws : disconnect(throws, ERROR, transcript, ts)
  /\ cpc' = [cpc EXCEPT ![i] = "awaitMic"]
  /\ UNCHANGED <<apiKey, otherVars, cprior, cvideo, oncloseFired, timer, nextStartTimeRef,
                 ctxTime, interruptedSince, msgVars>>

\* The catch block of connect(): setError, setConnectionState(ERROR),
\* disconnect().  ts is tstate as the failure left it.
connectCatch(i, ts) ==
  /\ error' = ErrFailed
  /\ \E throws \in Throws : disconnect(throws, ERROR, transcript, ts)
  /\ cpc' = [cpc EXCEPT ![i] = "failed"]
  /\ UNCHANGED <<apiKey, otherVars, cprior, cvideo, oncloseFired, timer, nextStartTimeRef,
                 ctxTime, interruptedSince, msgVars>>

\* getUserMedia rejects (permission denied, no device).
MicDenied(i) ==
  /\ cpc[i] = "awaitMic"
  /\ connectCatch(i, tstate)
  /\ last' = "MicDenied"

\* sessionPromise rejects: the transport could not be opened.
SessionReject(i) ==
  /\ cpc[i] = "awaitSession"
  /\ tstate[i] \in {"opening", "failed"}
  /\ connectCatch(i, [tstate EXCEPT ![i] = "failed"])
  /\ last' = "SessionReject"

\* The transport's onopen callback.
onopen(i) ==
  /\ tstate[i] = "opening"
  /\ tstate' = [tstate EXCEPT ![i] = "open"]
  /\ connectionState' = CONNECTED
  /\ timer' = [timer EXCEPT ![i] =
                 IF inputAudioContextRef # 0 THEN "pending" ELSE @]
  /\ last' = "onopen"
  /\ UNCHANGED <<apiKey, otherVars, error, transcript, sessionRef, audioVars, playVars,
                 cpc, cprior, cvideo, dpc, closeCalls, oncloseFired, msgVars>>

\* sessionPromise resolves: `sessionRef.current = await sessionPromise`.
SessionResolve(i) ==
  /\ cpc[i] = "awaitSession"
  /\ tstate[i] \in {"open", "closed"}
  /\ sessionRef' = i
  /\ cpc' = [cpc EXCEPT ![i] = "done"]
  /\ last' = "SessionResolve"
  /\ UNCHANGED <<apiKey, otherVars, connectionState, error, transcript, audioVars,
                 playVars, cprior, cvideo, dpc, tstate, closeCalls,
                 oncloseFired, timer, msgVars>>

\* The setTimeout callback of onopen (100 ms later): capture starts on the
\* AudioContext that inputAudioContextRef holds now, with the stream of
\* invocation i; the video interval is set when a videoElement was given.
onopenTimeout(i) ==
  /\ timer[i] = "pending"
  /\ timer' = [timer EXCEPT ![i] = "fired"]
  /\ last' = "onopenTimeout"
  /\ IF inputAudioContextRef = 0
     THEN UNCHANGED <<inputSourceRef, processorRef, processors, procCtx,
                      videoIntervalRef, intervals>>
     ELSE /\ inputSourceRef' = i
          /\ processorRef' = i
          /\ processors' = processors \cup {i}
          /\ procCtx' = [procCtx EXCEPT ![i] = inputAudioContextRef]
          /\ IF cvideo[i]
             THEN /\ videoIntervalRef' = i
                  /\ intervals' = intervals \cup {i}
             ELSE UNCHANGED <<videoIntervalRef, intervals>>
  /\ UNCHANGED <<apiKey, otherVars, hookVars, inputAudioContextRef, outputAudioContextRef,
                 outputGainRef, closedContexts, micHeld, playVars, cpc, cprior,
                 cvideo, dpc, tstate, closeCalls, oncloseFired, msgVars>>

\* The transport's onclose callback: disconnect().  It runs when the remote
\* side closes the transport and also after the hook itself closed it.
onclose(i) ==
  /\ tstate[i] # "none"
  /\ i \notin oncloseFired
  /\ oncloseFired' = oncloseFired \cup {i}
  /\ \E throws \in Throws :
       disconnect(throws, connectionState, transcript,
                  [tstate EXCEPT ![i] =
                     IF @ = "opening" THEN "failed"
                     ELSE IF @ = "open" THEN "closed" ELSE @])
  /\ last' = "onclose"
  /\ UNCHANGED <<apiKey, otherVars, error, cpc, cprior, cvideo, timer, nextStartTimeRef,
                 ctxTime, interruptedSince, msgVars>>

\* The transport's onerror callback.  The connection is broken; the handler
\* returns at once when the connectionState of connect's closure is
\* DISCONNECTED, else it sets the error message and calls disconnect().
onerror(i) ==
  /\ tstate[i] \in {"opening", "open"}
  /\ i \notin oncloseFired
  /\ last' = "onerror"
  /\ LET ts == [tstate EXCEPT ![i] = IF @ = "opening" THEN "failed" ELSE "closed"]
     IN IF closureConnectionState = DISCONNECTED
        THEN /\ tstate' = ts
             /\ UNCHANGED <<hookVars, audioVars, sources, activeSourcesRef,
                            dpc, closeCalls>>
        ELSE /\ error' = ErrConnection
             /\ \E throws \in Throws :
                  disconnect(throws, connectionState, transcript, ts)
  /\ UNCHANGED <<apiKey, otherVars, cpc, cprior, cvideo, oncloseFired, timer,
                 nextStartTimeRef, ctxTime, interruptedSince, msgVars>>

\* --------------------------------------------------------------- frames
\* A sendRealtimeInput call on the session of invocation p: whether sessionRef
\* held that session and whether its transport was open when it was made,
\* and for a video frame the videoWidth of the video element.
frame(kind, p, videoWidth) ==
  [kind |-> kind, session |-> p, current |-> sessionRef = p,
   open |-> tstate[p] = "open", videoWidth |-> videoWidth]

\* processor.onaudioprocess of the processor that the onopen timer of
\* invocation p created: `sessionPromise.then(session =>
\* session.sendRealtimeInput({ media: pcmBlob }))`.  The processor runs while
\* it is connected and its AudioContext is not closed; the send is made once
\* sessionPromise has resolved.
onaudioprocess(p) ==
  /\ p \in processors
  /\ procCtx[p] \notin closedContexts
  /\ cpc[p] = "done"
  /\ frames' = frames \cup {frame("audio", p, 0)}
  /\ last' = "onaudioprocess"
  /\ UNCHANGED <<apiKey, hookVars, audioVars, playVars, connVars, msgVars,
                 fileVars, fsOps, wakeVars, calVars, volVars>>

\* videoElement.videoWidth: 0 while the element has no video.
VideoWidths == {0, 640}

\* The setInterval callback of invocation p (every 500 ms): it returns if
\* the video element has no width, else a video frame is drawn and sent the
\* same way.
videoInterval(p) ==
  /\ p \in intervals
  /\ cpc[p] = "done"
  /\ \E videoWidth \in VideoWidths :
       frames' = IF videoWidth = 0 THEN frames
                 ELSE frames \cup {frame("video", p, videoWidth)}
  /\ last' = "videoInterval"
  /\ UNCHANGED <<apiKey, hookVars, audioVars, playVars, connVars, msgVars,
                 fileVars, fsOps, wakeVars, calVars, volVars>>

\* ---------------------------------------------------------- updateVolume
\* The averages of the analyser's byte frequency data that are sampled.
Averages == {0, 64, 128, 255}

\* `if (!analyserRef.current || connectionState === DISCONNECTED) return`:
\* analyserRef is set by the set-up and never cleared, connectionState is the
\* one of connect's closure.
loopStops(i) == closureConnectionState = DISCONNECTED

\* Math.min(1, average / 128), in 128ths.
normalizedVolume(average) == IF average < 128 THEN average ELSE 128

\* The animation frame of connect() invocation i: updateVolume runs.  The
\* set-up of the invocation has requested the first frame; updateVolume
\* requests the next one after it has passed a value to onAudioData.
updateVolume(i) ==
  /\ cpc[i] \notin {"idle", "returned", "awaitDisconnect"}
  /\ animationFrame[i] = "requested"
  /\ IF loopStops(i)
     THEN /\ animationFrame' = [animationFrame EXCEPT ![i] = "returned"]
          /\ UNCHANGED volumes
     ELSE /\ \E average \in Averages :
               volumes' = [volumes EXCEPT
                             ![i] = @ \cup {normalizedVolume(average)}]
          /\ UNCHANGED animationFrame
  /\ last' = "updateVolume"
  /\ UNCHANGED <<apiKey, hookVars, audioVars, playVars, connVars, msgVars,
                 frames, fileVars, fsOps, wakeVars, calVars>>

\* ------------------------------------------------------------ Dashboard
\* isConnected and isConnecting, the dependencies of the wake-word effect.
depsOf(cs) ==
  IF cs = CONNECTED THEN "connected"
  ELSE IF cs = CONNECTING THEN "connecting"
  ELSE "neither"

\* recognition.stop() on recognition a: it stops listening and may still
\* return a result from the audio it has captured.
stopped(rs, a) ==
  IF a # 0 /\ rs[a] = "listening" THEN [rs EXCEPT ![a] = "stopping"] ELSE rs

\* Dashboard commits a render in which isConnected or isConnecting differs
\* from the last commit (or its first render): the clean-up of the wake-word
\* effect stops its recognition and the effect runs again.  It returns early
\* if isConnected or isConnecting, else it creates the next recognition and
\* starts it (started: start() did not throw).
Render ==
  /\ effDeps # depsOf(connectionState)
  /\ effDeps' = depsOf(connectionState)
  /\ IF connectionState \in {CONNECTED, CONNECTING}
     THEN /\ recRef' = 0
          /\ rstate' = stopped(rstate, recRef)
     ELSE \E a \in ActivationIds, started \in BOOLEAN :
            /\ rstate[a] = "none"
            /\ \A b \in ActivationIds : b < a => rstate[b] # "none"
            /\ recRef' = a
            /\ rstate' = [stopped(rstate, recRef) EXCEPT
                            ![a] = IF started THEN "listening" ELSE "ended"]
  /\ last' = "Render"
  /\ UNCHANGED <<apiKey, hookVars, audioVars, playVars, connVars, msgVars,
                 frames, fileVars, fsOps, calVars, volVars, rconnects>>

\* recognition.onresult of recognition a with a final result that contains a
\* wake word: recognition.stop(); connect(videoRef.current).
WakeResult(a, i, video) ==
  /\ rstate[a] \in {"listening", "stopping"}
  /\ rstate' = [rstate EXCEPT
                  ![a] = IF @ = "listening" THEN "stopping" ELSE "ended"]
  /\ rconnects' = [rconnects EXCEPT ![a] = @ + 1]
  /\ connect(i, video)
  /\ last' = "WakeResult"
  /\ UNCHANGED <<frames, fileVars, fsOps, calVars, volVars, effDeps, recRef>>

\* Recognition a ends (onend does nothing: it is not started again).
recognitionEnd(a) ==
  /\ rstate[a] \in {"listening", "stopping"}
  /\ rstate' = [rstate EXCEPT ![a] = "ended"]
  /\ last' = "recognitionEnd"
  /\ UNCHANGED <<apiKey, hookVars, audioVars, playVars, connVars, msgVars,
                 frames, fileVars, fsOps, calVars, volVars, effDeps, recRef, rconnects>>

\* handleToggleConnection: the button of the last committed render.
handleToggleConnection(i, video) ==
  /\ effDeps # "unmounted"
  /\ IF effDeps \in {"connected", "connecting"}
     THEN Disconnect
     ELSE Connect(i, video)

\* ------------------------------------------------------ CalendarManager
\* useGeminiLive evaluates `useRef(new CalendarManager())` in a render after
\* the first: manager m is constructed (loadEvents, startMonitoring) and
\* dropped, calendarManager.current stays manager 1.
newCalendarManager(m) ==
  /\ m \notin managers
  /\ m - 1 \in managers
  /\ managers' = managers \cup {m}
  /\ events' = [events EXCEPT ![m] = localStorage]
  /\ checkInterval' = [checkInterval EXCEPT ![m] = wallClock + 1]
  /\ last' = "newCalendarManager"
  /\ UNCHANGED <<apiKey, hookVars, audioVars, playVars, connVars, msgVars,
                 frames, fileVars, fsOps, wakeVars, volVars, wallClock, eventTime,
                 localStorage, alarms, eventTitle, calResult>>

\* A monitor that triggers every event whose time has passed.
dueWithoutWindow(evs, t) ==
  {e \in EventIds : evs[e] = "todo" /\ t - eventTime[e] >= 0}

\* The events of a manager that a tick at time t triggers:
\* `!event.completed` and `diff >= 0 && diff < 2000`.
due(evs, t) ==
  {e \in EventIds : /\ evs[e] = "todo"
                    /\ t - eventTime[e] >= 0
                    /\ t - eventTime[e] < 2}

\* The events of a manager after a tick at time t.
ticked(evs, t) ==
  [e \in EventIds |-> IF e \in due(evs, t) THEN "done" ELSE evs[e]]

\* The interval callback of manager m runs: every event that is due fires
\* its alarm, is marked completed and the events are saved.
monitorTick(m) ==
  /\ m \in managers
  /\ checkInterval[m] <= wallClock
  /\ checkInterval' = [checkInterval EXCEPT ![m] = wallClock + 1]
  /\ events' = [events EXCEPT ![m] = ticked(events[m], wallClock)]
  /\ alarms' = [e \in EventIds |->
                  IF events'[m][e] # events[m][e] THEN alarms[e] + 1
                  ELSE alarms[e]]
  /\ localStorage' = IF events'[m] # events[m] THEN events'[m] ELSE localStorage
  /\ last' = "monitorTick"
  /\ UNCHANGED <<apiKey, hookVars, audioVars, playVars, connVars, msgVars,
                 frames, fileVars, fsOps, wakeVars, volVars, wallClock, managers, eventTime,
                 eventTitle, calResult>>

\* One second passes; every monitor has made the tick that was due.
second ==
  /\ wallClock < MaxTime
  /\ \A m \in managers : checkInterval[m] > wallClock
  /\ wallClock' = wallClock + 1
  /\ last' = "second"
  /\ UNCHANGED <<apiKey, hookVars, audioVars, playVars, connVars, msgVars,
                 frames, fileVars, fsOps, wakeVars, volVars, managers, events,
                 eventTime, checkInterval, localStorage, alarms, eventTitle, calResult>>

\* One second passes while the tick of some monitor is late.
lateSecond ==
  /\ wallClock < MaxTime
  /\ \E m \in managers : checkInterval[m] <= wallClock
  /\ wallClock' = wallClock + 1
  /\ last' = "lateSecond"
  /\ UNCHANGED <<apiKey, hookVars, audioVars, playVars, connVars, msgVars,
                 frames, fileVars, fsOps, wakeVars, volVars, managers, events,
                 eventTime, checkInterval, localStorage, alarms, eventTitle, calResult>>

\* ------------------------------------------------------------- strings
\* Strings are sequences of characters.
lower(c) ==
  CASE c = "A" -> "a" [] c = "B" -> "b" [] c = "E" -> "e" [] c = "Y" -> "y"
    [] OTHER -> c
toLowerCase(str) == [k \in DOMAIN str |-> lower(str[k])]
includes(str, sub) ==
  \E k \in 0..(Len(str) - Len(sub)) : SubSeq(str, k + 1, k + Len(sub)) = sub
substring(str, from, to) ==
  SubSeq(str, from + 1, IF to < Len(str) THEN to ELSE Len(str))
RECURSIVE trimStart(_)
trimStart(str) ==
  IF str # <<>> /\ Head(str) = " " THEN trimStart(Tail(str)) ELSE str
RECURSIVE trimEnd(_)
trimEnd(str) ==
  IF str # <<>> /\ str[Len(str)] = " "
  THEN trimEnd(SubSeq(str, 1, Len(str) - 1)) ELSE str
trim(str) == trimEnd(trimStart(str))

\* -------------------------------------------- CalendarManager operations
\* A time string: one that Date parses to time t, or one that it does not.
timeString(valid, t) == [valid |-> valid, time |-> t]
NaN == -1

\* A parser that takes every string for a date.
parseDateLenient(str) == str.time

\* `new Date(timeString).getTime()`.
parseDate(str) == IF str.valid THEN str.time ELSE NaN

\* `crypto.randomUUID()` of the e-th event.
randomUUID(e) == <<ToString(e), "f", "-", "4", "c">>

ErrInvalidTime == "Invalid time format. Please use ISO 8601 or a recognizable date string."
result(text, items, arg) == [text |-> text, items |-> items, arg |-> arg]

\* calendarManager.current.scheduleEvent(title, timeString): a string that
\* is no date throws; else event e, with a fresh id, is pushed to manager 1's
\* events, which are saved.
scheduleEvent(e, title, str) ==
  /\ IF parseDate(str) = NaN
     THEN /\ calResult' = result(ErrInvalidTime, <<>>, title)
          /\ UNCHANGED <<eventTime, eventTitle, events, localStorage>>
     ELSE /\ eventTime[e] = -1
          /\ \A d \in EventIds : d < e => eventTime[d] # -1
          /\ eventTime' = [eventTime EXCEPT ![e] = parseDate(str)]
          /\ eventTitle' = [eventTitle EXCEPT ![e] = title]
          /\ events' = [events EXCEPT ![1][e] = "todo"]
          /\ localStorage' = events'[1]
          /\ calResult' = result("Scheduled", <<>>, title)
  /\ last' = "scheduleEvent"
  /\ UNCHANGED <<apiKey, hookVars, audioVars, playVars, connVars, msgVars,
                 frames, fileVars, fsOps, wakeVars, volVars, wallClock, managers,
                 checkInterval, alarms>>

\* A listing without the completed events.
activeEventsTodoOnly(evs, t) == {e \in EventIds : evs[e] = "todo"}

\* The filter of listEvents: `!e.completed || (now - time < 3600000)`.
activeEvents(evs, t) ==
  {e \in EventIds : \/ evs[e] = "todo"
                    \/ evs[e] = "done" /\ t - eventTime[e] < Hour}

\* `.sort((a, b) => time(a) - time(b))` of the events in es: the sort is
\* stable, events with the same time stay in the order of the array.
RECURSIVE sortByTime(_)
sortByTime(es) ==
  IF es = {} THEN <<>>
  ELSE LET first == CHOOSE e \in es :
                      \A d \in es : \/ eventTime[e] < eventTime[d]
                                    \/ eventTime[e] = eventTime[d] /\ e <= d
       IN <<first>> \o sortByTime(es \ {first})

\* `[${DONE|TODO}] ${time}: ${title} (ID: ${id.substring(0,4)})`.
line(evs, e) ==
  [label |-> IF evs[e] = "done" THEN "DONE" ELSE "TODO",
   time |-> eventTime[e], title |-> eventTitle[e],
   id |-> substring(randomUUID(e), 0, 4)]

NoUpcoming == "No upcoming events scheduled."

\* calendarManager.current.listEvents().
listEvents ==
  /\ LET shown == sortByTime(activeEvents(events[1], wallClock))
     IN calResult' =
          IF shown = <<>> THEN result(NoUpcoming, <<>>, <<>>)
          ELSE result("list", [k \in DOMAIN shown |-> line(events[1], shown[k])],
                      <<>>)
  /\ last' = "listEvents"
  /\ UNCHANGED <<apiKey, hookVars, audioVars, playVars, connVars, msgVars,
                 frames, fileVars, fsOps, wakeVars, volVars, wallClock, managers,
                 events, eventTime, eventTitle, checkInterval, localStorage,
                 alarms>>

\* A match that compares the title as it is written.
matchesCaseSensitive(e, identifier) ==
  \/ includes(randomUUID(e), identifier)
  \/ includes(eventTitle[e], identifier)

\* The events deleteEvent filters out: the id includes the identifier or the
\* lower-cased title includes the lower-cased identifier.
matches(e, identifier) ==
  \/ includes(randomUUID(e), identifier)
  \/ includes(toLowerCase(eventTitle[e]), toLowerCase(identifier))

\* A deleteEvent that drops only the first event that matches.
deleteEventFirstOnly(identifier) ==
  /\ LET hits == {e \in EventIds :
                    events[1][e] # "absent" /\ matches(e, identifier)}
         kept == [e \in EventIds |->
                    IF e \in hits /\ \A d \in hits : e <= d
                    THEN "absent" ELSE events[1][e]]
     IN IF kept # events[1]
        THEN /\ events' = [events EXCEPT ![1] = kept]
             /\ localStorage' = kept
             /\ calResult' = result("Event removed.", <<>>, identifier)
        ELSE /\ UNCHANGED <<events, localStorage>>
             /\ calResult' = result("Event not found.", <<>>, identifier)
  /\ last' = "deleteEvent"
  /\ UNCHANGED <<apiKey, hookVars, audioVars, playVars, connVars, msgVars,
                 frames, fileVars, fsOps, wakeVars, volVars, wallClock, managers,
                 eventTime, eventTitle, checkInterval, alarms>>

\* calendarManager.current.deleteEvent(identifier): manager 1 drops every
\* event that matches and, if there was one, saves its events.
deleteEvent(identifier) ==
  /\ LET kept == [e \in EventIds |->
                    IF events[1][e] # "absent" /\ matches(e, identifier)
                    THEN "absent" ELSE events[1][e]]
     IN IF kept # events[1]
        THEN /\ events' = [events EXCEPT ![1] = kept]
             /\ localStorage' = kept
             /\ calResult' = result("Event removed.", <<>>, identifier)
        ELSE /\ UNCHANGED <<events, localStorage>>
             /\ calResult' = result("Event not found.", <<>>, identifier)
  /\ last' = "deleteEvent"
  /\ UNCHANGED <<apiKey, hookVars, audioVars, playVars, connVars, msgVars,
                 frames, fileVars, fsOps, wakeVars, volVars, wallClock, managers,
                 eventTime, eventTitle, checkInterval, alarms>>

\* ------------------------------------------------------- mountDirectory
ErrMount == "Failed to mount directory"
ErrAccess == "Access Denied"

\* mountDirectory() up to `await showDirectoryPicker()`; supported: the
\* browser has window.showDirectoryPicker, else the call throws into the
\* catch.  The picker is modal: one mountDirectory() is in progress at a time.
mountDirectory(supported) ==
  /\ mpc = "idle"
  /\ IF supported
     THEN mpc' = "picker" /\ error' = NoError
     ELSE mpc' = "idle" /\ error' = ErrMount
  /\ last' = "mountDirectory"
  /\ UNCHANGED <<apiKey, connectionState, transcript, sessionRef, audioVars,
                 playVars, connVars, msgVars, frames, directoryHandle,
                 isFileSystemReady, fsOps, wakeVars, calVars, volVars>>

\* The picker settles: with a handle, setDirectoryHandle stores it and awaits
\* queryPermission; with an AbortError (the user cancelled) or with a
\* SecurityError the catch ends the call.
pickerSettled(outcome) ==
  /\ mpc = "picker"
  /\ CASE outcome = "handle" ->
            directoryHandle' = TRUE /\ mpc' = "query" /\ error' = error
       [] outcome = "abort" ->
            directoryHandle' = directoryHandle /\ mpc' = "idle" /\ error' = error
       [] outcome = "security" ->
            directoryHandle' = directoryHandle /\ mpc' = "idle" /\ error' = ErrAccess
  /\ last' = "pickerSettled"
  /\ UNCHANGED <<apiKey, connectionState, transcript, sessionRef, audioVars,
                 playVars, connVars, msgVars, frames, isFileSystemReady, fsOps,
                 wakeVars, calVars, volVars>>

\* queryPermission settles: granted, not granted (requestPermission is
\* awaited next) or it threw.
querySettled(permission) ==
  /\ mpc = "query"
  /\ CASE permission = "granted" ->
            mpc' = "idle" /\ isFileSystemReady' = TRUE /\ error' = error
       [] permission = "prompt" ->
            mpc' = "request" /\ isFileSystemReady' = isFileSystemReady /\ error' = error
       [] permission = "threw" ->
            mpc' = "idle" /\ isFileSystemReady' = isFileSystemReady /\ error' = ErrMount
  /\ last' = "querySettled"
  /\ UNCHANGED <<apiKey, connectionState, transcript, sessionRef, audioVars,
                 playVars, connVars, msgVars, frames, directoryHandle, fsOps,
                 wakeVars, calVars, volVars>>

\* requestPermission settles; its answer is not looked at.
requestSettled(threw) ==
  /\ mpc = "request"
  /\ mpc' = "idle"
  /\ IF threw
     THEN isFileSystemReady' = isFileSystemReady /\ error' = ErrMount
     ELSE isFileSystemReady' = TRUE /\ error' = error
  /\ last' = "requestSettled"
  /\ UNCHANGED <<apiKey, connectionState, transcript, sessionRef, audioVars,
                 playVars, connVars, msgVars, frames, directoryHandle, fsOps,
                 wakeVars, calVars, volVars>>

\* ------------------------------------------------------------- messages
\* An inbound LiveServerMessage: output transcription text present, input
\* transcription ("none", "text", or "bye" for a text that contains bye),
\* the function calls of its toolCall, the duration of its audio chunk
\* (0: no audio) and its interrupted flag.
message(output, input, calls, audio, interrupted) ==
  [output |-> output, input |-> input, calls |-> calls, audio |-> audio,
   interrupted |-> interrupted]

\* A function call; args is "none" (the call carries no args object),
\* "invalid" (an args object without the fields its branch reads) or "valid".
functionCall(id, name, args) == [id |-> id, name |-> name, args |-> args]

\* The tools whose branch awaits a provider operation, the ones of these that
\* read no argument, the tools that open a browser window, and the tools that
\* append an annotation to the transcript.
ProviderTools == {"listFiles", "readFile", "writeFile", "scheduleEvent",
                  "listEvents", "deleteEvent"}
NoArgTools == {"listFiles", "listEvents"}
FileTools == {"listFiles", "readFile", "writeFile"}
BrowserTools == {"searchWeb", "openUrl"}
annotation(name) ==
  CASE name = "writeFile" -> <<"[System] Wrote to file">>
    [] name = "scheduleEvent" -> <<"[Calendar] Scheduled">>
    [] name = "searchWeb" -> <<"[Browser] Opening Search">>
    [] name = "openUrl" -> <<"[Browser] Opening URL">>
    [] OTHER -> <<>>

\* A setTranscript that puts the new text in the place of the old one.
appendTranscriptReplaces(tr, pieces) == pieces

\* setTranscript(prev => prev + text), the transcript capped at MaxTranscript.
appendTranscript(tr, pieces) ==
  IF Len(tr) + Len(pieces) <= MaxTranscript THEN tr \o pieces ELSE tr

\* The result string the dispatcher's catch makes of that error.
ErrNoDirectory == "Error: No directory connected."

\* A file operation that throws the error above.
noDirectoryIgnored(fc) == FALSE

\* `if (!this.directoryHandle) throw new Error("No directory connected.")`,
\* the first statement of listFiles, readFile and writeFile.
noDirectory(fc) == fc.name \in FileTools /\ ~directoryHandle

\* A call whose branch calls its provider operation: reading args.x of a
\* call without args throws before the operation is called.
callsProvider(fc) ==
  fc.name \in ProviderTools /\ (fc.args # "none" \/ fc.name \in NoArgTools)

\* A call whose handler is suspended at `await provider.operation(...)`.  A
\* file operation called with no directory has thrown before it started any
\* work: its await is over with the handler's own run.
isAwaited(fc) == callsProvider(fc) /\ ~noDirectory(fc)

\* The result string of a call that is settled without an await.  A browser
\* tool reads args.query or args.url: without an args object the read throws,
\* with an args object that lacks the field it reads undefined, opens the
\* window for "undefined" and reports what it opened.
syncResult(fc) ==
  IF fc.name \in ProviderTools \cup BrowserTools
  THEN IF callsProvider(fc) /\ noDirectory(fc) THEN ErrNoDirectory
       ELSE IF fc.args # "none" THEN "ok" ELSE "Error"
  ELSE "Function not found"

toolResponse(h, fc, out, sess) ==
  [handler |-> h, id |-> fc.id, name |-> fc.name, output |-> out,
   session |-> sess, current |-> sessionRef = sess,
   open |-> tstate[sess] = "open"]

\* A dispatcher that sends the response of a call ahead of the ones that
\* were sent before it.
RECURSIVE runToolsPrepends(_, _, _, _, _, _, _)
runToolsPrepends(h, sess, calls, k, resp, tr, sendThrows) ==
  IF k > Len(calls) THEN [pc |-> "audio", k |-> k, resp |-> resp, tr |-> tr]
  ELSE IF isAwaited(calls[k])
  THEN [pc |-> "awaitTool", k |-> k, resp |-> resp, tr |-> tr]
  ELSE LET out == syncResult(calls[k])
           tr1 == IF out = "ok"
                  THEN appendTranscript(tr, annotation(calls[k].name))
                  ELSE tr
       IN IF sendThrows
          THEN [pc |-> "aborted", k |-> k, resp |-> resp, tr |-> tr1]
          ELSE runToolsPrepends(h, sess, calls, k + 1,
                                <<toolResponse(h, calls[k], out, sess)>> \o resp,
                                tr1, FALSE)

\* The for loop over functionCalls from call k on, as far as it runs without
\* suspending: up to the first awaited call, to a sendToolResponse that
\* throws (sendThrows: the first send of this run throws), or to its end.
RECURSIVE runTools(_, _, _, _, _, _, _)
runTools(h, sess, calls, k, resp, tr, sendThrows) ==
  IF k > Len(calls) THEN [pc |-> "audio", k |-> k, resp |-> resp, tr |-> tr]
  ELSE IF isAwaited(calls[k])
  THEN [pc |-> "awaitTool", k |-> k, resp |-> resp, tr |-> tr]
  ELSE LET out == syncResult(calls[k])
           tr1 == IF out = "ok"
                  THEN appendTranscript(tr, annotation(calls[k].name))
                  ELSE tr
       IN IF sendThrows
          THEN [pc |-> "aborted", k |-> k, resp |-> resp, tr |-> tr1]
          ELSE runTools(h, sess, calls, k + 1,
                        Append(resp, toolResponse(h, calls[k], out, sess)),
                        tr1, FALSE)

\* sendToolResponse can only fail on a transport that is no longer open.
SendThrows(sess) == IF tstate[sess] = "open" THEN {FALSE} ELSE BOOLEAN

\* A handler that ends.  The handler of a message with tool calls stays on
\* record, the one of a message with audio only as a handler that is done,
\* and the record of any other one is dropped.
ended(hs, h, pc, interrupted) ==
  IF hs[h].msg.calls # <<>>
  THEN [hs EXCEPT ![h].pc = pc, ![h].ctx = 0, ![h].interrupted = interrupted]
  ELSE IF hs[h].msg.audio > 0
  THEN [hs EXCEPT ![h] = [pc |-> pc]]
  ELSE [hs EXCEPT ![h] = NoHandler]

finished(hs, h, interrupted) == ended(hs, h, "done", interrupted)

\* The handlers that are suspended when an interrupted signal is handled:
\* their messages arrived before the signal (stale).
suspendedAtInterrupt(hs) ==
  [g \in HandlerIds |->
     IF hs[g].pc \in {"awaitSession", "awaitTool", "decode"}
     THEN [hs[g] EXCEPT !.stale = TRUE] ELSE hs[g]]

\* An interrupted part that stops the buffers and clears the transcript but
\* leaves nextStartTimeRef where the scheduler had put it.
interruptedPartKeepsOffset(hs, h, tr, srcs, active, nst, since) ==
  /\ sources' = IF hs[h].msg.interrupted THEN stopSources(srcs, active) ELSE srcs
  /\ activeSourcesRef' = IF hs[h].msg.interrupted THEN {} ELSE active
  /\ nextStartTimeRef' = nst
  /\ transcript' = IF hs[h].msg.interrupted THEN <<>> ELSE tr
  /\ interruptedSince' = (hs[h].msg.interrupted \/ since)
  /\ handlers' = finished(hs, h, hs[h].msg.interrupted)

\* The end of onmessage: `if (message.serverContent?.interrupted)`.
\* hs, tr, srcs, active, nst and since are the handlers, the transcript, the
\* sources, activeSourcesRef, nextStartTimeRef and interruptedSince as the
\* handler left them so far.
interruptedPart(hs, h, tr, srcs, active, nst, since) ==
  IF hs[h].msg.interrupted
  THEN /\ sources' = stopSources(srcs, active)
       /\ activeSourcesRef' = {}
       /\ nextStartTimeRef' = 0
       /\ transcript' = <<>>
       /\ interruptedSince' = TRUE
       /\ handlers' = suspendedAtInterrupt(finished(hs, h, TRUE))
  ELSE /\ sources' = srcs
       /\ activeSourcesRef' = active
       /\ nextStartTimeRef' = nst
       /\ transcript' = tr
       /\ interruptedSince' = since
       /\ handlers' = finished(hs, h, FALSE)

\* `if (base64Audio && outputAudioContextRef.current && outputGainRef.current)`
\* up to `await decodeAudioData(...)`, else the interrupted part.
audioPart(hs, h, tr) ==
  IF /\ hs[h].msg.audio > 0
     /\ outputAudioContextRef # 0
     /\ outputGainRef # 0
  THEN /\ handlers' = [hs EXCEPT ![h].pc = "decode",
                                 ![h].ctx = outputAudioContextRef]
       /\ transcript' = tr
       /\ UNCHANGED <<sources, activeSourcesRef, nextStartTimeRef, interruptedSince>>
  ELSE interruptedPart(hs, h, tr, sources, activeSourcesRef, nextStartTimeRef,
                       interruptedSince)

\* The rest of the handler after a run r of the tool loop.
afterTools(h, r) ==
  /\ responses' = r.resp
  /\ IF r.pc = "audio"
     THEN audioPart(handlers, h, r.tr)
     ELSE /\ handlers' = [handlers EXCEPT ![h].pc = r.pc, ![h].k = r.k]
          /\ transcript' = r.tr
          /\ UNCHANGED <<sources, activeSourcesRef, nextStartTimeRef, interruptedSince>>
  /\ fsOps' = IF /\ r.pc = "awaitTool"
                 /\ handlers[h].msg.calls[r.k].name \in FileTools
              THEN fsOps \cup {<<h, handlers[h].msg.calls[r.k].id>>}
              ELSE fsOps

\* The text of an input transcription: none, one that does not say bye, and
\* two that do.
inputText(input) ==
  CASE input = "none" -> <<>>
    [] input = "text" -> <<"b", "y", " ", "e">>
    [] input = "bye" -> <<"b", "y", "e">>
    [] input = "Bye" -> <<" ", "o", "k", " ", "B", "Y", "E", " ">>

\* A test for bye that does not fold the case of the text.
saysByeCaseSensitive(input) ==
  /\ inputText(input) # <<>>
  /\ includes(trim(inputText(input)), <<"b", "y", "e">>)

\* `if (message.serverContent?.inputTranscription?.text)` and
\* `text.trim().toLowerCase().includes("bye")`.
saysBye(input) ==
  /\ inputText(input) # <<>>
  /\ includes(toLowerCase(trim(inputText(input))), <<"b", "y", "e">>)

newHandler(i, m) ==
  [pc |-> "start", sess |-> i, msg |-> m, k |-> 1, ctx |-> 0,
   interrupted |-> FALSE, stale |-> FALSE]

\* The transport's onmessage callback on session i with message m, up to its
\* first await.
onmessage(i, m) ==
  /\ tstate[i] = "open"
  /\ \E h \in HandlerIds :
       /\ handlers[h].pc = "none"
       /\ \A g \in HandlerIds : g < h => handlers[g].pc # "none"
       /\ LET tr1 == IF m.output
                     THEN appendTranscript(transcript, <<"output">>)
                     ELSE transcript
              started == [handlers EXCEPT ![h] = newHandler(i, m)]
          IN IF saysBye(m.input)
             THEN /\ \E throws \in Throws :
                       disconnect(throws, connectionState, tr1, tstate)
                  /\ handlers' = ended(started, h, "returned", FALSE)
                  /\ UNCHANGED <<nextStartTimeRef, interruptedSince>>
             ELSE IF m.calls # <<>>
             THEN /\ handlers' = [started EXCEPT ![h].pc = "awaitSession"]
                  /\ transcript' = tr1
                  /\ UNCHANGED <<connectionState, sessionRef, audioVars,
                                 nextStartTimeRef, activeSourcesRef, sources,
                                 interruptedSince, dpc, tstate, closeCalls>>
             ELSE /\ audioPart(started, h, tr1)
                  /\ UNCHANGED <<connectionState, sessionRef, audioVars,
                                 dpc, tstate, closeCalls>>
  /\ last' = "onmessage"
  /\ UNCHANGED <<apiKey, otherVars, error, cpc, cprior, cvideo, oncloseFired, timer,
                 ctxTime, responses>>

\* `const session = await sessionPromise` returns in the handler: the tool
\* loop starts.
toolsStart(h) ==
  /\ handlers[h].pc = "awaitSession"
  /\ cpc[handlers[h].sess] = "done"
  /\ \E sendThrows \in SendThrows(handlers[h].sess) :
       afterTools(h, runTools(h, handlers[h].sess, handlers[h].msg.calls, 1,
                              responses, transcript, sendThrows))
  /\ last' = "toolsStart"
  /\ UNCHANGED <<apiKey, frames, fileVars, wakeVars, calVars, volVars, connectionState, error, sessionRef, audioVars,
                 ctxTime, connVars>>

\* The awaited provider operation of call k settles (ok: it resolved, else
\* it rejected); the response is sent and the loop goes on.  scheduleEvent
\* rejects a time that is not a date.
toolSettled(h, ok) ==
  /\ handlers[h].pc = "awaitTool"
  /\ ok => ~(/\ handlers[h].msg.calls[handlers[h].k].name = "scheduleEvent"
             /\ handlers[h].msg.calls[handlers[h].k].args = "invalid")
  /\ LET rec == handlers[h]
         fc == rec.msg.calls[rec.k]
         out == IF ok THEN "ok" ELSE "Error"
         tr1 == IF ok THEN appendTranscript(transcript, annotation(fc.name))
                ELSE transcript
     IN \E sendThrows \in SendThrows(rec.sess) :
          IF sendThrows
          THEN afterTools(h, [pc |-> "aborted", k |-> rec.k,
                              resp |-> responses, tr |-> tr1])
          ELSE afterTools(h, runTools(h, rec.sess, rec.msg.calls, rec.k + 1,
                                      Append(responses,
                                             toolResponse(h, fc, out, rec.sess)),
                                      tr1, FALSE))
  /\ last' = "toolSettled"
  /\ UNCHANGED <<apiKey, frames, fileVars, wakeVars, calVars, volVars, connectionState, error, sessionRef, audioVars,
                 ctxTime, connVars>>

\* A scheduler that starts every chunk at the clock and ignores nextStartTime.
scheduledStartAtClock(nst, now) == now

\* scheduledStart = max(nextStartTime, ctx.currentTime).
scheduledStart(nst, now) == IF nst > now THEN nst ELSE now

\* `await decodeAudioData(...)` returns: the source is created on the
\* AudioContext the handler captured, started and added to activeSourcesRef,
\* then the interrupted part runs.  source.connect(outputGainRef.current)
\* throws when the gain node belongs to the AudioContext of a later connect():
\* the handler ends there.
decoded(h) ==
  /\ handlers[h].pc = "decode"
  /\ LET rec == handlers[h]
         start == scheduledStart(nextStartTimeRef, ctxTime[rec.ctx])
         source == [ctx |-> rec.ctx, start |-> start, duration |-> rec.msg.audio,
                    st |-> "playing", fresh |-> interruptedSince,
                    handler |-> h, stale |-> rec.stale]
     IN IF rec.ctx # outputGainRef
        THEN /\ handlers' = ended(handlers, h, "aborted", FALSE)
             /\ UNCHANGED <<transcript, nextStartTimeRef, activeSourcesRef,
                            sources, interruptedSince>>
        ELSE interruptedPart(handlers, h, transcript, Append(sources, source),
                             activeSourcesRef \cup {Len(sources) + 1},
                             start + rec.msg.audio, FALSE)
  /\ last' = "decoded"
  /\ UNCHANGED <<apiKey, otherVars, connectionState, error, sessionRef, audioVars,
                 ctxTime, connVars, responses>>

\* source.onended: the buffer has played to its end.
onended(s) ==
  /\ s \in DOMAIN sources
  /\ sources[s].st = "playing"
  /\ sources[s].ctx \notin closedContexts
  /\ ctxTime[sources[s].ctx] >= sources[s].start + sources[s].duration
  /\ sources' = [sources EXCEPT ![s].st = "ended"]
  /\ activeSourcesRef' = activeSourcesRef \ {s}
  /\ last' = "onended"
  /\ UNCHANGED <<apiKey, otherVars, hookVars, audioVars, nextStartTimeRef, ctxTime, interruptedSince,
                 connVars, msgVars>>

\* Time passes on an AudioContext that was created and not closed.
tick(c) ==
  /\ cpc[c] \notin {"idle", "returned", "awaitDisconnect"}
  /\ c \notin closedContexts
  /\ ctxTime[c] < MaxClock
  /\ ctxTime' = [ctxTime EXCEPT ![c] = @ + 1]
  /\ last' = "tick"
  /\ UNCHANGED <<apiKey, otherVars, hookVars, audioVars, nextStartTimeRef,
                 activeSourcesRef, sources, interruptedSince, connVars, msgVars>>

\* ------------------------------------------------------------------ Next
\* The messages the remote service sends in each specification.
TextMessages ==
  { message(TRUE, "none", <<>>, 0, FALSE),
    message(FALSE, "bye", <<>>, 0, FALSE) }

AudioMessages ==
  { message(FALSE, "none", <<>>, 1, FALSE),
    message(TRUE, "none", <<>>, 2, FALSE),
    message(FALSE, "none", <<>>, 0, TRUE),
    message(FALSE, "none", <<>>, 1, TRUE) }

ToolMessages ==
  { message(FALSE, "none", <<functionCall(1, "listFiles", "none")>>, 0, FALSE),
    message(FALSE, "none", <<functionCall(1, "writeFile", "valid"),
                             functionCall(2, "noSuchTool", "valid")>>, 0, FALSE),
    message(FALSE, "none", <<functionCall(1, "searchWeb", "none"),
                             functionCall(2, "scheduleEvent", "invalid")>>, 0, FALSE),
    message(FALSE, "none", <<functionCall(1, "openUrl", "invalid"),
                             functionCall(2, "readFile", "none")>>, 0, FALSE) }

ChunkMessages == { message(FALSE, "none", <<>>, 1, FALSE) }

TranscriptMessages ==
  { message(TRUE, "none", <<>>, 0, FALSE),
    message(FALSE, "bye", <<>>, 0, FALSE),
    message(TRUE, "none", <<>>, 0, TRUE),
    message(FALSE, "none", <<functionCall(1, "scheduleEvent", "valid")>>, 0, FALSE),
    message(FALSE, "none", <<functionCall(1, "searchWeb", "valid")>>, 1, TRUE) }

\* The life cycle: connect, disconnect and the transport's callbacks.
lifeCycle(ids) ==
  \/ \E i \in ids, video \in BOOLEAN : Connect(i, video)
  \/ \E i \in ids : ConnectResume(i)
  \/ \E i \in ids : MicGranted(i)
  \/ \E i \in ids : MicDenied(i)
  \/ \E i \in ids : SessionReject(i)
  \/ \E i \in ids : onopen(i)
  \/ \E i \in ids : SessionResolve(i)
  \/ \E i \in ids : onopenTimeout(i)
  \/ \E i \in ids : onclose(i)
  \/ \E i \in ids : onerror(i)
  \/ \E s \in ids : DisconnectResume(s)

Next ==
  \/ lifeCycle(ConnectIds)
  \/ Disconnect
  \/ \E i \in ConnectIds, m \in TextMessages : onmessage(i, m)

Spec == Init /\ [][Next]_vars

\* Every suspended disconnect() is resumed: `await session.close()` returns.
Fairness == \A s \in ConnectIds : WF_vars(DisconnectResume(s))

FairSpec == Spec /\ Fairness

\* connect() calls only: nothing but connect() itself calls disconnect(), and
\* no transport fails or is closed by the remote side.
NextConnects ==
  \/ \E i \in ConnectIds, video \in BOOLEAN : Connect(i, video)
  \/ \E i \in ConnectIds : ConnectResume(i)
  \/ \E i \in ConnectIds : MicGranted(i)
  \/ \E i \in ConnectIds : onopen(i)
  \/ \E i \in ConnectIds : SessionResolve(i)
  \/ \E i \in ConnectIds : onopenTimeout(i)
  \/ \E s \in ConnectIds : DisconnectResume(s)

SpecConnects == Init /\ [][NextConnects]_vars

\* Capture and video sampling: connect() and disconnect() calls without
\* failures, and the frames the processors and intervals send.
NextFrames ==
  \/ \E i \in ConnectIds, video \in BOOLEAN : Connect(i, video)
  \/ \E i \in ConnectIds : ConnectResume(i)
  \/ \E i \in ConnectIds : MicGranted(i)
  \/ \E i \in ConnectIds : onopen(i)
  \/ \E i \in ConnectIds : SessionResolve(i)
  \/ \E i \in ConnectIds : onopenTimeout(i)
  \/ \E s \in ConnectIds : DisconnectResume(s)
  \/ Disconnect
  \/ \E p \in ConnectIds : onaudioprocess(p)
  \/ \E p \in ConnectIds : videoInterval(p)

SpecFrames == Init /\ [][NextFrames]_vars

\* No connect() invocation is under way.
noConnectPending ==
  \A j \in ConnectIds : cpc[j] \in {"idle", "returned", "done", "failed"}

\* Sessions that are opened one after the other and closed by the user,
\* without failures: connect() is called only when none is under way.
sessions(ids) ==
  \/ \E i \in ids : noConnectPending /\ Connect(i, FALSE)
  \/ \E i \in ids : MicGranted(i)
  \/ \E i \in ids : onopen(i)
  \/ \E i \in ids : SessionResolve(i)
  \/ \E s \in ids : DisconnectResume(s)
  \/ Disconnect

\* The Dashboard: the connection button, the wake-word effect and the
\* sessions they open, without failures of the set-up.
NextWake ==
  \/ Render
  \/ \E a \in ActivationIds, i \in ConnectIds, video \in BOOLEAN :
       WakeResult(a, i, video)
  \/ \E a \in ActivationIds : recognitionEnd(a)
  \/ \E i \in ConnectIds, video \in BOOLEAN : handleToggleConnection(i, video)
  \/ \E i \in ConnectIds : ConnectResume(i)
  \/ \E i \in ConnectIds : MicGranted(i)
  \/ \E i \in ConnectIds : onopen(i)
  \/ \E i \in ConnectIds : SessionResolve(i)
  \/ \E i \in ConnectIds : onclose(i)
  \/ \E s \in ConnectIds : DisconnectResume(s)

SpecWake == Init /\ [][NextWake]_vars

\* Sessions that fail, with the connection button and the wake-word listener
\* to open them: the microphone is denied, the transport cannot be opened,
\* breaks or is closed by the remote side.
NextReconnect ==
  \/ lifeCycle(ConnectIds)
  \/ Render
  \/ \E a \in ActivationIds, i \in ConnectIds, video \in BOOLEAN :
       WakeResult(a, i, video)

SpecReconnect == Init /\ [][NextReconnect]_vars

\* The calendar: the managers the renders construct, their monitors with
\* ticks one second apart, and the operations on calendarManager.current.
NextCalendar ==
  \/ \E m \in ManagerIds : newCalendarManager(m)
  \/ \E m \in ManagerIds : monitorTick(m)
  \/ second
  \/ \E e \in EventIds, t \in Times :
       scheduleEvent(e, <<"A">>, timeString(TRUE, t))
  \/ \E e \in EventIds : deleteEvent(randomUUID(e))

SpecCalendar == Init /\ [][NextCalendar]_vars

\* The calendar with monitors whose ticks may be late.
NextCalendarLate ==
  \/ NextCalendar
  \/ lateSecond

SpecCalendarLate == Init /\ [][NextCalendarLate]_vars

\* The calendar with late ticks and the listings of calendarManager.current.
NextMissed ==
  \/ NextCalendarLate
  \/ listEvents

SpecMissed == Init /\ [][NextMissed]_vars

\* The titles, times and identifiers the calendar operations are given.
Titles == {<<"A">>, <<"a", "b">>, <<"B">>}
TimeSamples == {0, 1, Hour}
TimeStrings ==
  {timeString(TRUE, t) : t \in TimeSamples} \cup {timeString(FALSE, 0)}
Identifiers == {<<"a">>, <<"A">>, <<"b">>, <<"1">>, <<"a", "B">>, <<"z">>, <<>>}

\* The first CalendarManager, constructed at a time when localStorage holds
\* the events of earlier visits.
InitStored ==
  /\ wallClock \in {1, Hour, Hour + 1}
  /\ managers = {1}
  /\ localStorage \in [EventIds -> {"absent", "todo", "done"}]
  /\ \A e \in EventIds :
       localStorage[e] = "absent" =>
         \A d \in EventIds : d > e => localStorage[d] = "absent"
  /\ events = [m \in ManagerIds |->
                 IF m = 1 THEN localStorage ELSE [e \in EventIds |-> "absent"]]
  /\ eventTime \in [EventIds -> TimeSamples \cup {-1}]
  /\ eventTitle \in [EventIds -> Titles \cup {NoTitle}]
  /\ \A e \in EventIds :
       IF localStorage[e] = "absent"
       THEN eventTime[e] = -1 /\ eventTitle[e] = NoTitle
       ELSE eventTime[e] # -1 /\ eventTitle[e] # NoTitle
  \* an event is completed at its time or up to two seconds later
  /\ \A e \in EventIds : localStorage[e] = "done" => eventTime[e] <= wallClock
  /\ checkInterval = [m \in ManagerIds |-> IF m = 1 THEN wallClock + 1 ELSE 0]
  /\ alarms = [e \in EventIds |-> 0]
  /\ calResult = NoResult

\* The operations on calendarManager.current.
NextOperations ==
  \/ \E e \in EventIds, title \in Titles, str \in TimeStrings :
       scheduleEvent(e, title, str)
  \/ listEvents
  \/ \E identifier \in Identifiers : deleteEvent(identifier)

InitOperations == InitHook /\ InitStored

SpecOperations == InitOperations /\ [][NextOperations]_vars

\* The playback scheduler: audio chunks and interrupted signals.
NextPlayback ==
  \/ sessions(SessionIds)
  \/ \E i \in SessionIds, m \in AudioMessages : onmessage(i, m)
  \/ \E h \in HandlerIds : decoded(h)
  \/ \E s \in HandlerIds : onended(s)
  \/ \E c \in SessionIds : tick(c)

SpecPlayback == Init /\ [][NextPlayback]_vars

\* The transcript: transcriptions, tool annotations and interrupted signals
\* in sessions that the user opens and closes.
NextTranscript ==
  \/ sessions(SessionIds)
  \/ \E i \in SessionIds, m \in TranscriptMessages : onmessage(i, m)
  \/ \E h \in HandlerIds : toolsStart(h)
  \/ \E h \in HandlerIds, ok \in BOOLEAN : toolSettled(h, ok)
  \/ \E h \in HandlerIds : decoded(h)

SpecTranscript == Init /\ [][NextTranscript]_vars

\* Playback in sessions that follow one another.
NextReplay ==
  \/ sessions(ConnectIds)
  \/ \E i \in ConnectIds, m \in ChunkMessages : onmessage(i, m)
  \/ \E h \in HandlerIds : decoded(h)
  \/ \E c \in ConnectIds : tick(c)

SpecReplay == Init /\ [][NextReplay]_vars

\* The volume sampling loop in sessions that follow one another.
NextVolume ==
  \/ sessions(ConnectIds)
  \/ \E i \in ConnectIds : updateVolume(i)

SpecVolume == Init /\ [][NextVolume]_vars

\* Messages that say bye and carry tool calls, audio and the interrupted
\* flag, and messages that carry the same without saying bye.
ByeMessages ==
  { message(TRUE, "Bye", <<functionCall(1, "searchWeb", "valid")>>, 1, TRUE),
    message(FALSE, "bye", <<functionCall(1, "listFiles", "none")>>, 0, FALSE),
    message(FALSE, "text", <<functionCall(1, "listEvents", "none")>>, 1, TRUE),
    message(FALSE, "none", <<>>, 1, FALSE) }

NextBye ==
  \/ sessions(SessionIds)
  \/ \E i \in SessionIds, m \in ByeMessages : onmessage(i, m)
  \/ \E h \in HandlerIds : toolsStart(h)
  \/ \E h \in HandlerIds, ok \in BOOLEAN : toolSettled(h, ok)
  \/ \E h \in HandlerIds : decoded(h)

SpecBye == Init /\ [][NextBye]_vars

\* Batches of several calls, awaited and not, with a directory that the
\* user mounts and is granted.
BatchMessages ==
  { message(FALSE, "none", <<functionCall(1, "listFiles", "none"),
                             functionCall(2, "listEvents", "none"),
                             functionCall(3, "noSuchTool", "valid")>>, 0, FALSE),
    message(FALSE, "none", <<functionCall(1, "deleteEvent", "valid"),
                             functionCall(2, "readFile", "valid")>>, 0, FALSE) }

NextBatch ==
  \/ sessions(SessionIds)
  \/ \E i \in SessionIds, m \in BatchMessages : onmessage(i, m)
  \/ \E h \in HandlerIds : toolsStart(h)
  \/ \E h \in HandlerIds, ok \in BOOLEAN : toolSettled(h, ok)
  \/ mountDirectory(TRUE)
  \/ pickerSettled("handle")
  \/ querySettled("granted")

SpecBatch == Init /\ [][NextBatch]_vars

\* The tool dispatcher.
NextTools ==
  \/ sessions(SessionIds)
  \/ \E i \in SessionIds, m \in ToolMessages : onmessage(i, m)
  \/ \E h \in HandlerIds : toolsStart(h)
  \/ \E h \in HandlerIds, ok \in BOOLEAN : toolSettled(h, ok)
  \/ \E supported \in BOOLEAN : mountDirectory(supported)
  \/ \E outcome \in {"handle", "abort", "security"} : pickerSettled(outcome)
  \/ \E permission \in {"granted", "prompt", "threw"} : querySettled(permission)
  \/ \E threw \in BOOLEAN : requestSettled(threw)

SpecTools == Init /\ [][NextTools]_vars

\* ================================================================ claims
openTransports == {i \in ConnectIds : tstate[i] = "open"}

\* C1: for any sequence of connect() calls with no disconnect() call from
\* outside connect(), at most one transport is open at any instant.
C1_AtMostOneTransportOpen == Cardinality(openTransports) <= 1

\* The handlers of messages that carried a toolCall, and the ones of these
\* whose run is over (it ended, or a throwing send ended it).
toolHandlers ==
  {h \in HandlerIds : "msg" \in DOMAIN handlers[h] /\ handlers[h].msg.calls # <<>>}
overToolHandlers ==
  {h \in toolHandlers : handlers[h].pc \in {"done", "aborted", "returned"}}
responsesTo(h, fc) ==
  {r \in DOMAIN responses : /\ responses[r].handler = h
                            /\ responses[r].id = fc.id
                            /\ responses[r].name = fc.name}
responsesOf(h) == {r \in DOMAIN responses : responses[r].handler = h}

\* C2: once the handler of a toolCall batch of N calls is over, exactly N
\* responses were sent for it, one for each call id, also when a disconnect
\* or a failing send happened while the batch was processed.
C2_ExactlyOneResponsePerCall ==
  \A h \in overToolHandlers :
    LET calls == handlers[h].msg.calls
    IN /\ Cardinality(responsesOf(h)) = Len(calls)
       /\ \A k \in DOMAIN calls : Cardinality(responsesTo(h, calls[k])) = 1

\* C3: a decoded chunk is scheduled at max(nextStartTime, output clock) and,
\* when its message carries no interrupted flag, nextStartTime becomes that
\* start plus the chunk's duration; a chunk scheduled with no interrupt since
\* the chunk before it starts no earlier than that chunk's start plus its
\* duration, so start times do not decrease and the buffers do not overlap.
C3_ChunksScheduledBackToBack ==
  [][\A h \in HandlerIds :
       handlers[h].pc = "decode" /\ handlers'[h].pc = "done" =>
         LET n == Len(sources')
             new == sources'[n]
             clock == ctxTime[handlers[h].ctx]
         IN /\ n = Len(sources) + 1
            /\ new.duration = handlers[h].msg.audio
            /\ new.start = IF nextStartTimeRef > clock
                           THEN nextStartTimeRef ELSE clock
            /\ ~handlers[h].msg.interrupted =>
                 nextStartTimeRef' = new.start + new.duration
            /\ n > 1 /\ ~new.fresh =>
                 /\ new.start >= sources[n - 1].start
                 /\ new.start >= sources[n - 1].start + sources[n - 1].duration
    ]_vars

\* Two chunks scheduled with the clock at 0 and no interrupt in between: the
\* second one starts where the first one ends.
C3_Witness ==
  /\ last = "decoded"
  /\ Len(sources) = 2
  /\ ~sources[2].fresh
  /\ sources[1].start = 0
  /\ sources[2].start = sources[1].duration
  /\ ctxTime[sources[2].ctx] = 0

\* A step in which the interrupted part of a handler runs with the flag set:
\* the end of a handler that was decoding, or an onmessage that schedules
\* no audio.
interruptHandled ==
  \/ \E h \in HandlerIds :
       /\ handlers[h].pc = "decode" /\ handlers'[h].pc = "done"
       /\ handlers[h].msg.interrupted
  \/ \E i \in SessionIds, m \in AudioMessages :
       /\ m.interrupted
       /\ m.audio = 0 \/ outputAudioContextRef = 0 \/ outputGainRef = 0
       /\ onmessage(i, m)

\* C4: right after an interrupted signal is handled every buffer that was in
\* activeSourcesRef is stopped, the set is empty, nextStartTime is 0 and the
\* transcript is empty; the next chunk scheduled after it starts at the output
\* clock of that moment, not at an offset left from before the interrupt.
C4_InterruptResetsPlayback ==
  [][/\ interruptHandled =>
          /\ \A s \in activeSourcesRef : sources'[s].st = "stopped"
          /\ \A s \in DOMAIN sources' \ DOMAIN sources : sources'[s].st = "stopped"
          /\ activeSourcesRef' = {}
          /\ nextStartTimeRef' = 0
          /\ transcript' = <<>>
     /\ \A h \in HandlerIds :
          /\ handlers[h].pc = "decode" /\ handlers'[h].pc = "done"
          /\ interruptedSince
          => /\ sources'[Len(sources')].fresh
             /\ sources'[Len(sources')].start = ctxTime[handlers[h].ctx]
    ]_vars

\* A buffer was scheduled up to an offset ahead of the clock and stopped by an
\* interrupted signal; the chunk scheduled next started at the clock, before
\* that offset.
C4_Witness ==
  /\ last = "decoded"
  /\ closedContexts = {}
  /\ Len(sources) = 2
  /\ sources[1].st = "stopped"
  /\ sources[2].fresh
  /\ sources[2].st = "playing"
  /\ sources[2].start < sources[1].start + sources[1].duration
  /\ activeSourcesRef = {2}

\* C5: a disconnect() call that follows a completed disconnect() call with
\* nothing in between completes without suspending or setting an error,
\* connectionState is DISCONNECTED after each of the two calls, and the second
\* call leaves every part of the state as the first call left it.
C5_DisconnectTwice ==
  [][/\ last' \in disconnectCompleted =>
          /\ connectionState' = DISCONNECTED
          /\ error' = error
     /\ /\ last \in disconnectCompleted
        /\ last' \in {"Disconnect", "DisconnectAgain"}
                     \cup {suspendedOn(s) : s \in ConnectIds}
        => last' = "DisconnectAgain"
     /\ last' = "DisconnectAgain" =>
          /\ last \in disconnectCompleted
          /\ connectionState = DISCONNECTED
          /\ UNCHANGED <<apiKey, otherVars, hookVars, audioVars, playVars, connVars, msgVars>>
    ]_vars

\* A second disconnect() in a row after a first one that closed a session and
\* the audio contexts.
C5_Witness ==
  /\ last = "DisconnectAgain"
  /\ \E s \in ConnectIds : closeCalls[s] = 1 /\ dpc[s] \in {"done", "threw"}
  /\ closedContexts # {}

\* A step in which a disconnect() call runs to its end: a suspended call is
\* resumed, a call whose session.close() throws goes on at once, or a call
\* that finds no session in sessionRef does.
disconnectCompletes ==
  \/ \E s \in ConnectIds : dpc'[s] # dpc[s] /\ dpc'[s] \in {"done", "threw"}
  \/ /\ sessionRef = 0
     /\ last' \in {"Disconnect", "DisconnectAgain", "onclose", "MicDenied",
                   "SessionReject"}

\* C6: when a disconnect() call completes, close() was called on the transport
\* that sessionRef held and the transport is closed unless close() threw; no
\* capture processor is connected to an AudioContext that is still running,
\* no video interval is set, no buffer is playing, activeSourcesRef is empty,
\* the transcript is empty and connectionState is DISCONNECTED.
C6_DisconnectTearsDown ==
  [][disconnectCompletes =>
       /\ \A s \in ConnectIds :
            dpc'[s] # dpc[s] /\ dpc'[s] \in {"done", "threw"} =>
              /\ closeCalls'[s] >= 1
              /\ dpc'[s] = "done" => tstate'[s] \notin {"opening", "open"}
       /\ \A p \in processors' : procCtx'[p] \in closedContexts'
       /\ intervals' = {}
       /\ \A s \in DOMAIN sources' : sources'[s].st # "playing"
       /\ activeSourcesRef' = {}
       /\ transcript' = <<>>
       /\ connectionState' = DISCONNECTED
    ]_vars

\* connect() has failed in its set-up: the credential is missing, or the
\* catch block ran because getUserMedia or the transport's open rejected.
setupFailed ==
  \/ last \in {"MicDenied", "SessionReject"}
  \/ last = "Connect" /\ \E i \in ConnectIds : cpc[i] = "returned"

\* C7: a connect() that fails in its set-up leaves a non-null error message
\* and, at once or as soon as the disconnect() of its catch block is resumed,
\* connectionState DISCONNECTED: the state stays neither CONNECTING nor ERROR.
C7_SetupFailureReturnsToDisconnected ==
  /\ [][setupFailed' =>
          /\ error' # NoError
          /\ \/ connectionState' = DISCONNECTED
             \/ /\ connectionState' = ERROR
                /\ \E s \in ConnectIds : dpc'[s] = "awaitClose"
       ]_vars
  /\ (setupFailed ~> connectionState = DISCONNECTED)

\* getUserMedia was denied: the catch block has reported the failure and the
\* state is back at DISCONNECTED.
C7_Witness ==
  /\ last = "MicDenied"
  /\ error = ErrFailed
  /\ connectionState = DISCONNECTED
  /\ \E i \in ConnectIds : cpc[i] = "failed"

\* The transport of session i invokes its onclose or its onerror callback in
\* this step.
oncloseOf(i) == i \notin oncloseFired /\ i \in oncloseFired'
onerrorOf(i) ==
  /\ last' = "onerror"
  /\ tstate[i] \in {"opening", "open"}
  /\ tstate'[i] \notin {"opening", "open"}

\* What a disconnect() call has done when it returns to its caller: it is
\* suspended on the close of the session it took from sessionRef, or it has
\* run to its end.
teardownOf(i) ==
  /\ sessionRef' = 0
  /\ \/ dpc'[i] = "awaitClose"
     \/ /\ connectionState' = DISCONNECTED
        /\ transcript' = <<>>
        /\ inputAudioContextRef' = 0 /\ outputAudioContextRef' = 0
        /\ processorRef' = 0 /\ videoIntervalRef' = 0
        /\ activeSourcesRef' = {}

\* C8: when the transport of the current session invokes onclose or onerror,
\* the teardown of disconnect() is performed, and onerror also sets a
\* non-null error message.
C8_CallbacksTearDown ==
  [][\A i \in ConnectIds :
       sessionRef = i =>
         /\ oncloseOf(i) => teardownOf(i)
         /\ onerrorOf(i) => teardownOf(i) /\ error' # NoError
    ]_vars

\* The pipelines of session p are stopped: no buffer of its output context is
\* playing, its capture processor is not connected to a running AudioContext
\* and its video interval is not set.
pipelinesStopped(p) ==
  /\ \A s \in DOMAIN sources : sources[s].ctx = p => sources[s].st # "playing"
  /\ p \in processors => procCtx[p] \in closedContexts
  /\ p \notin intervals

\* C9: a connect() that found session p in sessionRef opens its transport
\* only after close() was called on the transport of p and the disconnect()
\* has run to its end, with the pipelines of p stopped; the transport of p is
\* closed (unless close() threw) when the new transport's onopen fires.
C9_TeardownBeforeNewTransport ==
  [][\A j \in ConnectIds :
       cprior[j] # 0 =>
         LET p == cprior[j]
         IN /\ tstate[j] = "none" /\ tstate'[j] = "opening" =>
                 /\ closeCalls[p] >= 1
                 /\ dpc[p] \in {"done", "threw"}
                 /\ dpc[p] = "done" => tstate[p] \notin {"opening", "open"}
                 /\ pipelinesStopped(p)
            /\ tstate[j] = "opening" /\ tstate'[j] = "open" /\ dpc[p] = "done"
                 => tstate[p] \notin {"opening", "open"}
    ]_vars

\* C10: once a session is disconnected or superseded the results of its tool
\* calls are discarded: every tool response that was sent was sent for the
\* session that sessionRef held at that moment.
C10_NoResponseOnSupersededSession ==
  \A r \in DOMAIN responses : responses[r].current

\* C11: an audio or video frame is sent only on the session that sessionRef
\* holds at the time of the send; a frame of a session that was cleared or
\* replaced is dropped.
C11_FramesOnlyOnCurrentSession ==
  \A f \in frames : f.current

\* C12: the microphone is acquired only after the transport's open callback
\* has fired: every microphone stream that is held belongs to a connect()
\* whose transport has opened.
C12_MicrophoneOnlyAfterOpen ==
  \A i \in micHeld : tstate[i] \in {"open", "closed"} /\ timer[i] # "none"

\* C13: every path that stops capture releases the microphone: when
\* disconnect() completes, when the transport's close or error callback has
\* torn down, and when connect() has failed, no microphone stream is held.
C13_MicrophoneReleasedOnTeardown ==
  (last \in disconnectCompleted \cup {"onclose", "onerror", "MicDenied",
                                      "SessionReject"})
    => micHeld = {}

\* The tool registry, the output strings that report a failure, and the
\* calls whose arguments are missing or invalid.
Registry == ProviderTools \cup BrowserTools
ErrorOutputs == {"Error", ErrNoDirectory, "Function not found"}
failedArgs(fc) == fc.name \in Registry \ NoArgTools /\ fc.args # "valid"
callOf(hs, r) ==
  CHOOSE fc \in {hs[r.handler].msg.calls[k] :
                   k \in DOMAIN hs[r.handler].msg.calls} : fc.id = r.id
toolStep(h) ==
  toolsStart(h) \/ toolSettled(h, TRUE) \/ toolSettled(h, FALSE)

\* C14: a tool call whose provider throws, whose arguments are missing or
\* invalid or whose name is not in the registry yields a tool response whose
\* output is an error string, and the step of the dispatcher that settles it
\* changes neither connectionState nor the session error nor the transport.
C14_ToolFailureYieldsErrorOutput ==
  [][\A h \in HandlerIds :
       toolStep(h) =>
         /\ connectionState' = connectionState
         /\ error' = error
         /\ tstate' = tstate
         /\ \A k \in (Len(responses) + 1)..Len(responses') :
              LET fc == callOf(handlers, responses'[k])
              IN (failedArgs(fc) \/ fc.name \notin Registry)
                   => responses'[k].output \in ErrorOutputs
         /\ toolSettled(h, FALSE) =>
              /\ Len(responses') > Len(responses)
              /\ responses'[Len(responses) + 1].output \in ErrorOutputs]_vars

\* The new responses of a step that answer a call to a file operation.
newFileResponses ==
  {k \in (Len(responses) + 1)..Len(responses') :
     LET fc == callOf(handlers, responses'[k])
     IN fc.name \in FileTools /\ callsProvider(fc)}

\* C15: with no directory mounted, a step of the dispatcher that calls
\* listFiles, readFile or writeFile answers the call with the error output
\* 'No directory connected.', starts no operation on storage, opens no
\* prompt and is not left suspended or aborted by the file operation.
C15_NoDirectoryConnected ==
  [][\A h \in HandlerIds :
       (toolStep(h) /\ ~directoryHandle) =>
         /\ \A k \in newFileResponses : responses'[k].output = ErrNoDirectory
         /\ fsOps' = fsOps
         /\ mpc' = mpc
         /\ handlers'[h].pc = "awaitTool"
              => handlers'[h].msg.calls[handlers'[h].k].name \notin FileTools
         /\ tstate[handlers[h].sess] = "open" => handlers'[h].pc # "aborted"]_vars

\* A file operation was called with no directory and answered.
C15_Witness ==
  /\ ~directoryHandle
  /\ \E k \in DOMAIN responses :
       /\ responses[k].name = "writeFile"
       /\ responses[k].output = ErrNoDirectory

\* The values connectionState is set to in one step, after the value it had:
\* the catch block of connect() sets ERROR and then calls disconnect().
statePath ==
  IF last' \in {"MicDenied", "SessionReject"}
  THEN <<connectionState, ERROR, connectionState'>>
  ELSE <<connectionState, connectionState'>>

\* C16: connectionState starts as DISCONNECTED and every change of it follows
\* one of the edges Disconnected -> Connecting, Connecting -> Connected,
\* Connected -> Disconnected, any state -> Error, Error -> Disconnected.
C16_ConnectionStateEdges ==
  /\ connectionState = DISCONNECTED
  /\ [][\A k \in 1..(Len(statePath) - 1) :
          statePath[k + 1] # statePath[k]
            => \/ <<statePath[k], statePath[k + 1]>>
                    \in {<<DISCONNECTED, CONNECTING>>, <<CONNECTING, CONNECTED>>,
                         <<CONNECTED, DISCONNECTED>>, <<ERROR, DISCONNECTED>>}
               \/ statePath[k + 1] = ERROR]_vars

\* C17: the wake-word recognition listens only while connectionState is
\* DISCONNECTED: in CONNECTING, CONNECTED and ERROR no recognition is
\* listening.
C17_ListenerOnlyWhileDisconnected ==
  (\E a \in ActivationIds : rstate[a] = "listening")
    => connectionState = DISCONNECTED

\* C18: each recognition the wake-word effect starts makes at most one
\* connect() call.
C18_OneConnectPerActivation ==
  \A a \in ActivationIds : rconnects[a] <= 1

\* C19: the completed flag of an event changes only from false to true, and
\* only in a monitor tick at a time with time <= now < time + 2 s; it is
\* never set back to false.
C19_CompletedOnlyInTickWindow ==
  [][\A m \in ManagerIds, e \in EventIds :
       /\ events[m][e] = "done" => events'[m][e] # "todo"
       /\ (events[m][e] = "todo" /\ events'[m][e] = "done")
            => /\ last' = "monitorTick"
               /\ eventTime[e] <= wallClock
               /\ wallClock < eventTime[e] + 2]_vars

\* An event was completed by a monitor tick.
C19_Witness ==
  /\ last = "monitorTick"
  /\ \E e \in EventIds : events[1][e] = "done" /\ alarms[e] = 1

\* C20: with monitor ticks one second apart, counting the alarms of every
\* monitor that is running, no event fires its alarm twice.
C20_AlarmFiresOnce ==
  \A e \in EventIds : alarms[e] <= 1

\* ---------------------------------------------------------------- C21
\* The events manager m holds, completed or not.
stored(evs) == {e \in EventIds : evs[e] # "absent"}

\* C21: scheduleEvent with a time string that is no valid date fails with the
\* invalid-time error and leaves the events in memory and the persisted store
\* as they were; with a time string that parses it appends exactly one new
\* event, not completed, and the persisted store holds the new list.
C21_ScheduleEventValidatesTime ==
  [][\A e \in EventIds, title \in Titles, str \in TimeStrings :
       scheduleEvent(e, title, str) =>
         IF ~str.valid
         THEN /\ calResult'.text = ErrInvalidTime
              /\ events' = events
              /\ localStorage' = localStorage
         ELSE /\ calResult'.text # ErrInvalidTime
              /\ e \notin stored(events[1])
              /\ stored(events'[1]) = stored(events[1]) \cup {e}
              /\ events'[1][e] = "todo"
              /\ eventTime'[e] = str.time /\ eventTitle'[e] = title
              /\ \A d \in EventIds \ {e} :
                   /\ events'[1][d] = events[1][d]
                   /\ eventTime'[d] = eventTime[d]
                   /\ eventTitle'[d] = eventTitle[d]
              /\ localStorage' = events'[1]]_vars

\* A rejected scheduleEvent on a manager that holds a persisted event.
C21_Witness ==
  /\ last = "scheduleEvent"
  /\ calResult.text = ErrInvalidTime
  /\ \E e \in EventIds : events[1][e] = "todo" /\ localStorage[e] = "todo"

\* ---------------------------------------------------------------- C22
\* The events the listing has to show at time t: those not completed and the
\* completed ones whose time is less than an hour before t.
listed(evs, t) ==
  {e \in EventIds : \/ evs[e] = "todo"
                    \/ evs[e] = "done" /\ t - eventTime[e] < Hour}

\* C22: listEvents returns exactly the events that are not completed and the
\* completed ones less than an hour old, by ascending time, each labelled DONE
\* if completed and TODO otherwise; it returns 'No upcoming events scheduled.'
\* exactly when there is no such event, and it leaves the events as they were.
C22_ListEventsShowsActiveSorted ==
  [][listEvents =>
       /\ (calResult'.text = NoUpcoming) <=> (listed(events[1], wallClock) = {})
       /\ Len(calResult'.items) = Cardinality(listed(events[1], wallClock))
       /\ \A e \in listed(events[1], wallClock) :
            \E k \in DOMAIN calResult'.items :
              calResult'.items[k] =
                [label |-> IF events[1][e] = "done" THEN "DONE" ELSE "TODO",
                 time |-> eventTime[e], title |-> eventTitle[e],
                 id |-> SubSeq(randomUUID(e), 1, 4)]
       /\ \A j, k \in DOMAIN calResult'.items :
            j < k => calResult'.items[j].time <= calResult'.items[k].time
       /\ events' = events /\ localStorage' = localStorage
       /\ eventTime' = eventTime /\ eventTitle' = eventTitle]_vars

\* A listing of a completed and an open event in which the event scheduled
\* second comes first.
C22_Witness ==
  /\ last = "listEvents"
  /\ Len(calResult.items) = 2
  /\ calResult.items[1].id = SubSeq(randomUUID(2), 1, 4)
  /\ \E k \in 1..2 : calResult.items[k].label = "DONE"
  /\ \E k \in 1..2 : calResult.items[k].label = "TODO"

\* ---------------------------------------------------------------- C23
\* Event e is named by the identifier: its title contains the identifier,
\* letter case aside, or its id contains it.
named(e, identifier) ==
  \/ \E k \in 0..(Len(eventTitle[e]) - Len(identifier)) :
       \A j \in 1..Len(identifier) :
         lower(eventTitle[e][k + j]) = lower(identifier[j])
  \/ \E k \in 0..(Len(randomUUID(e)) - Len(identifier)) :
       \A j \in 1..Len(identifier) : randomUUID(e)[k + j] = identifier[j]

\* C23: deleteEvent(identifier) removes the events that the identifier names
\* and no others, returns 'Event removed.' and saves; called again at once
\* with the same identifier it returns 'Event not found.' and leaves the
\* events as they are.
C23_DeleteEventByIdentifier ==
  [][\A identifier \in Identifiers :
       deleteEvent(identifier) =>
         /\ (\E e \in stored(events[1]) : named(e, identifier)) =>
              /\ calResult'.text = "Event removed."
              /\ stored(events'[1]) =
                   {e \in stored(events[1]) : ~named(e, identifier)}
              /\ \A e \in stored(events'[1]) : events'[1][e] = events[1][e]
              /\ localStorage' = events'[1]
         /\ (last = "deleteEvent" /\ calResult.arg = identifier) =>
              /\ calResult'.text = "Event not found."
              /\ events' = events
              /\ localStorage' = localStorage]_vars

\* A repeated deleteEvent: the call before it removed an event by a title
\* written in another letter case, this one found nothing.
C23_Witness ==
  /\ last = "deleteEvent"
  /\ calResult.text = "Event not found."
  /\ calResult.arg = <<"A">>
  /\ \E e \in EventIds :
       /\ events[1][e] = "absent"
       /\ eventTitle[e] = <<"a", "b">>

\* ---------------------------------------------------------------- C24
\* The connect() calls that have not yet opened their transport.
callsUnderWay(pcs) == {i \in ConnectIds : pcs[i] \in {"awaitDisconnect", "awaitMic"}}

\* C24: a transport is opened only by a connect() call of the connection
\* button or of the wake-word listener, one transport for each call: after a
\* transport was closed, broke or could not be opened, nothing in the session
\* code calls connect() or opens a transport again.
C24_NoReconnectWithoutConnectCall ==
  [][/\ \A i \in ConnectIds :
          (tstate'[i] = "opening" /\ tstate[i] # "opening") =>
            /\ i \in callsUnderWay(cpc)
            /\ i \notin callsUnderWay(cpc')
            /\ tstate[i] = "none"
     /\ (callsUnderWay(cpc') \ callsUnderWay(cpc) # {}) =>
            last' \in {"Connect", "WakeResult"}
     /\ last' \in {"onclose", "onerror", "SessionReject", "MicDenied"} =>
            /\ callsUnderWay(cpc') \subseteq callsUnderWay(cpc)
            /\ \A i \in ConnectIds : tstate'[i] = "opening" => tstate[i] = "opening"]_vars

\* The transport of the first session was closed and the wake-word listener
\* has called connect() again, which opened the second transport.
C24_Witness ==
  /\ tstate[1] \in {"closed", "failed"}
  /\ tstate[2] = "opening"
  /\ \E a \in ActivationIds : rconnects[a] > 0

\* ---------------------------------------------------------------- C25
\* Transcript tr is the beginning of transcript longer.
isPrefix(tr, longer) ==
  Len(tr) <= Len(longer) /\ SubSeq(longer, 1, Len(tr)) = tr

\* A step in which disconnect() runs to its setTranscript("").
teardownStep ==
  \/ Disconnect
  \/ \E s \in SessionIds : DisconnectResume(s)
  \/ \E i \in SessionIds : Connect(i, FALSE)
  \/ \E i \in SessionIds, m \in TranscriptMessages :
       m.input = "bye" /\ onmessage(i, m)

\* A step in which the handler of a message with the interrupted flag runs.
interruptedStep ==
  \/ \E i \in SessionIds, m \in TranscriptMessages :
       m.interrupted /\ onmessage(i, m)
  \/ \E h \in HandlerIds :
       /\ handlers[h].pc \in {"awaitSession", "awaitTool", "decode"}
       /\ handlers[h].msg.interrupted
       /\ \/ toolsStart(h)
          \/ \E ok \in BOOLEAN : toolSettled(h, ok)
          \/ decoded(h)

\* C25: the transcript only grows at its end, by transcription text and tool
\* annotations; it becomes empty again only in a step of disconnect() or in
\* the handler of an interrupted signal.
C25_TranscriptAppendOnly ==
  [][\/ isPrefix(transcript, transcript')
     \/ transcript' = <<>> /\ (teardownStep \/ interruptedStep)]_vars

\* A connected session whose transcript holds a transcription and the
\* annotation of a tool call after it.
C25_Witness ==
  /\ connectionState = CONNECTED
  /\ transcript = <<"output", "[Calendar] Scheduled">>

\* ---------------------------------------------------------------- C26
\* C26: whenever a connect() opens a transport, also after an earlier session
\* that played audio, nextStartTimeRef is 0, so that the first chunk of the
\* session starts at the clock of its AudioContext.
C26_CursorZeroAtSessionStart ==
  [][\A i \in ConnectIds :
       tstate[i] = "none" /\ tstate'[i] = "opening" => nextStartTimeRef' = 0]_vars

\* ---------------------------------------------------------------- C27
\* C27: audio chunks are scheduled in the order in which their messages
\* arrived, whatever the order in which their decodes end: of two chunks of
\* one session, the one whose message arrived first is scheduled first and
\* starts no later than the other.  Handlers are numbered as their messages
\* arrive.
C27_ChunksScheduledInArrivalOrder ==
  \A a, b \in DOMAIN sources :
    (sources[a].ctx = sources[b].ctx /\ sources[a].handler < sources[b].handler)
      => (a < b /\ sources[a].start <= sources[b].start)

\* ---------------------------------------------------------------- C28
\* C28: once an interrupted signal has been handled, no chunk whose message
\* arrived before the signal is started: a chunk that was being decoded when
\* the signal was handled is never scheduled.
C28_NoStaleChunkAfterInterrupt ==
  \A s \in DOMAIN sources : ~sources[s].stale

\* ---------------------------------------------------------------- C29
\* C29: while a session is current, the volume sampling loop of its
\* connect() keeps running: an animation frame is requested for it, in which
\* it passes a value between 0 and 1 to onAudioData; once the session handle
\* is cleared the loop passes no value and requests no frame.
C29_VolumeLoopRunsWhileSessionCurrent ==
  [][\A i \in ConnectIds :
       /\ sessionRef' = i => animationFrame'[i] = "requested"
       /\ \A v \in volumes'[i] : 0 <= v /\ v <= 128
       /\ sessionRef = 0 => volumes'[i] = volumes[i]]_vars

\* ---------------------------------------------------------------- C30
\* C30: a video frame is sent only for a connect() that was given a video
\* element, and only when the element has a width; at most one video
\* interval is set at any time, and none is left when disconnect() has run
\* to its end.
C30_VideoSamplingTimer ==
  /\ \A f \in frames : f.kind = "video" => (cvideo[f.session] /\ f.videoWidth > 0)
  /\ Cardinality(intervals) <= 1
  /\ last \in disconnectCompleted => intervals = {}

\* ---------------------------------------------------------------- C31
\* C31: session.close() is invoked at most once for each session, also when
\* onclose calls disconnect() again or when disconnect() is called while an
\* earlier call still awaits the close: sessionRef is cleared before the
\* await.
C31_CloseAtMostOnce ==
  \A s \in ConnectIds : closeCalls[s] <= 1

\* A disconnect() call has run to its end while the first one still awaits
\* the close of session s, and the onclose of s has called disconnect() too.
C31_Witness ==
  \E s \in ConnectIds :
    /\ closeCalls[s] = 1
    /\ dpc[s] = "awaitClose"
    /\ s \in oncloseFired
    /\ last \in {"Disconnect", "DisconnectAgain"}

\* ---------------------------------------------------------------- C32
\* No connect() and no disconnect() call is suspended.
noCallInProgress ==
  /\ noConnectPending
  /\ \A s \in ConnectIds : dpc[s] # "awaitClose"

\* C32: whenever connectionState is DISCONNECTED and no connect() or
\* disconnect() call is in progress, sessionRef is null, no transport is
\* open, no capture processor runs, no video interval is set and
\* activeSourcesRef is empty.
C32_DisconnectedMeansIdle ==
  (connectionState = DISCONNECTED /\ noCallInProgress) =>
    /\ sessionRef = 0
    /\ openTransports = {}
    /\ \A p \in processors : procCtx[p] \in closedContexts
    /\ intervals = {}
    /\ activeSourcesRef = {}

\* ---------------------------------------------------------------- C33
\* connect() invocation i is the only one so far and a disconnect() ran while
\* it was in progress and connectionState was CONNECTING: its AudioContexts
\* were closed by a disconnect() that found no session in sessionRef, before
\* its transport opened (onopen found no AudioContext and set no timer).
disconnectedWhileConnecting(i) ==
  /\ i \in closedContexts
  /\ dpc[i] = "none"
  /\ timer[i] = "none"
  /\ \A j \in ConnectIds \ {i} : cpc[j] = "idle"

\* C33: when disconnect() is called while a connect() is in progress, with
\* sessionRef not yet assigned, the connection is abandoned: its transport
\* is not open afterwards, capture does not start and connectionState does
\* not become CONNECTED, unless connect() is called again.
C33_DisconnectAbandonsPendingConnect ==
  \A i \in ConnectIds :
    disconnectedWhileConnecting(i) =>
      /\ tstate[i] # "open"
      /\ i \notin processors
      /\ connectionState # CONNECTED

\* ---------------------------------------------------------------- C34
\* Event e is not completed in manager m and its window has passed: it was
\* scheduled more than two seconds late, or no tick fell into the window.
missed(m, e) ==
  /\ events[m][e] = "todo"
  /\ wallClock - eventTime[e] >= 2

\* C34: an event whose time lies two seconds or more before now and that is
\* not completed is never marked completed and fires no alarm, and every
\* listEvents lists it as TODO, until it is deleted.
C34_MissedEventStaysTodo ==
  [][\A m \in ManagerIds, e \in EventIds :
       missed(m, e) =>
         /\ events'[m][e] # "done"
         /\ events'[m][e] = "absent" => last' = "deleteEvent"
         /\ alarms'[e] = alarms[e]
         /\ (listEvents /\ m = 1) =>
              \E k \in DOMAIN calResult'.items :
                /\ calResult'.items[k].id = SubSeq(randomUUID(e), 1, 4)
                /\ calResult'.items[k].label = "TODO"]_vars

\* A listing with an event that was scheduled more than two seconds late,
\* after monitor ticks that passed it over.
C34_Witness ==
  /\ last = "listEvents"
  /\ \E e \in EventIds :
       /\ events[1][e] = "todo"
       /\ wallClock - eventTime[e] >= 3
       /\ alarms[e] = 0
       /\ \E k \in DOMAIN calResult.items :
            /\ calResult.items[k].id = SubSeq(randomUUID(e), 1, 4)
            /\ calResult.items[k].label = "TODO"

\* ---------------------------------------------------------------- C35
\* C35: deleteEvent(identifier) removes all the events that the identifier
\* names, not just one, so that the empty identifier removes every event; an
\* identifier that names no event leaves the events in memory and the
\* persisted store as they were.
C35_DeleteEventRemovesAllMatches ==
  [][\A identifier \in Identifiers :
       deleteEvent(identifier) =>
         /\ \A e \in stored(events[1]) :
              named(e, identifier) => events'[1][e] = "absent"
         /\ identifier = <<>> => stored(events'[1]) = {}
         /\ (\A e \in stored(events[1]) : ~named(e, identifier)) =>
              /\ events' = events
              /\ localStorage' = localStorage
              /\ calResult'.text = "Event not found."]_vars

\* The empty identifier has removed two events.
C35_Witness ==
  /\ last = "deleteEvent"
  /\ calResult = result("Event removed.", <<>>, <<>>)
  /\ stored(events[1]) = {}
  /\ localStorage = events[1]
  /\ \A e \in {1, 2} : eventTime[e] # -1

\* ---------------------------------------------------------------- C36
\* C36: after every scheduleEvent, every deleteEvent and every monitor tick
\* that completes an event, the events persisted in localStorage are the
\* events of calendarManager.current, with the same completed flags: no
\* write takes a scheduled event out of the store.
C36_StoreEqualsServingManager ==
  [][(\/ last' \in {"scheduleEvent", "deleteEvent"}
      \/ last' = "monitorTick" /\ alarms' # alarms)
       => localStorage' = events'[1]]_vars


\* C37: a mountDirectory() call that returns false leaves the file provider's
\* directory handle and isFileSystemReady as they were, and isFileSystemReady
\* becomes true only on a call that returns true.  Both start unset and
\* neither is ever cleared, so while no call is in progress and no call has
\* returned true (isFileSystemReady is false) the provider holds no handle;
\* and a step that sets isFileSystemReady is the last step of a call whose
\* permission check went through.
C37_FailedMountChangesNothing ==
  [][/\ (mpc' = "idle" /\ ~isFileSystemReady') => ~directoryHandle'
     /\ (isFileSystemReady' # isFileSystemReady)
          => /\ isFileSystemReady' /\ mpc' = "idle"
             /\ mpc \in {"query", "request"} /\ error' = error]_vars


\* ---------------------------------------------------------------- C38
\* The input transcriptions whose text contains bye in some case, and the
\* handlers on record whose message has one.
containsBye == {"bye", "Bye"}
byeHandlers(hs) ==
  {h \in HandlerIds : hs[h].pc \notin {"none", "done", "aborted"}
                      /\ hs[h].msg.input \in containsBye}

\* C38: an inbound message whose input transcription contains bye in any
\* case calls disconnect() and its handler returns there: the step sends no
\* tool response, starts no provider operation, creates no audio source and
\* does not run the interrupted part, and the handler does none of these
\* later either, as it is not suspended anywhere.
C38_ByeEndsProcessing ==
  [][/\ \A i \in SessionIds, m \in ByeMessages :
          (m.input \in containsBye /\ onmessage(i, m)) =>
            /\ sessionRef' = 0
            /\ \/ connectionState' = DISCONNECTED /\ transcript' = <<>>
               \/ /\ sessionRef # 0
                  /\ dpc'[sessionRef] = "awaitClose"
                  /\ closeCalls'[sessionRef] = closeCalls[sessionRef] + 1
            /\ responses' = responses
            /\ fsOps' = fsOps
            /\ Len(sources') = Len(sources)
            /\ nextStartTimeRef' = nextStartTimeRef
            /\ interruptedSince' = interruptedSince
            /\ byeHandlers(handlers') # byeHandlers(handlers)
     /\ \A h \in byeHandlers(handlers') :
          /\ handlers'[h].pc = "returned"
          /\ ~handlers'[h].interrupted
          /\ \A k \in DOMAIN responses' : responses'[k].handler # h
          /\ \A k \in DOMAIN sources' : sources'[k].handler # h
          /\ \A op \in fsOps' : op[1] # h]_vars

\* A message that says BYE and carries a tool call, audio and the
\* interrupted flag has been handled while a buffer was playing: disconnect()
\* is suspended on close(), the buffer is still in activeSourcesRef and
\* nothing was sent.
C38_Witness ==
  /\ last = "onmessage"
  /\ \E h \in byeHandlers(handlers) :
       /\ handlers[h].msg.input = "Bye"
       /\ handlers[h].msg.calls # <<>>
       /\ handlers[h].msg.audio > 0
       /\ handlers[h].msg.interrupted
       /\ dpc[handlers[h].sess] = "awaitClose"
  /\ activeSourcesRef # {}
  /\ responses = <<>>


\* ---------------------------------------------------------------- C39
\* The ids of the responses sent for handler h, in the order of sending.
RECURSIVE sentIds(_, _)
sentIds(resp, h) ==
  IF resp = <<>> THEN <<>>
  ELSE IF Head(resp).handler = h
  THEN <<Head(resp).id>> \o sentIds(Tail(resp), h)
  ELSE sentIds(Tail(resp), h)

\* The place of the call with this id in the batch of handler h.
placeOf(h, id) ==
  CHOOSE k \in DOMAIN handlers[h].msg.calls : handlers[h].msg.calls[k].id = id

\* C39: within one toolCall batch the calls are executed one at a time in
\* batch order.  The responses sent for a batch are the responses of its
\* first calls in call order; while the handler awaits the provider operation
\* of call k exactly the k - 1 calls before it have been answered; and a file
\* operation that was started belongs to a call whose predecessors have all
\* been answered.
C39_BatchInOrder ==
  \A h \in toolHandlers :
    LET calls == handlers[h].msg.calls
        sent == sentIds(responses, h)
    IN /\ Len(sent) <= Len(calls)
       /\ \A j \in DOMAIN sent : sent[j] = calls[j].id
       /\ handlers[h].pc = "awaitTool" => Len(sent) = handlers[h].k - 1
       /\ \A op \in fsOps : op[1] = h => Len(sent) >= placeOf(h, op[2]) - 1

\* A batch of three calls, file operation, calendar operation and unknown
\* tool, was answered in full while the handler of another batch is awaiting
\* the file operation of its second call, its first call answered.
C39_Witness ==
  \E h \in toolHandlers, g \in toolHandlers :
    /\ h # g
    /\ handlers[h].pc = "done"
    /\ sentIds(responses, h) = <<1, 2, 3>>
    /\ <<h, 1>> \in fsOps
    /\ handlers[g].pc = "awaitTool"
    /\ handlers[g].k = 2
    /\ <<g, 2>> \in fsOps
    /\ sentIds(responses, g) = <<1>>


\* ---------------------------------------------------------------- C40
\* C40: whenever connectionState is Disconnected the transcript is empty:
\* nothing of an operation that was in flight at the teardown, neither an
\* output transcription nor a tool annotation, is appended after the session
\* has been disconnected.
C40_DisconnectedTranscriptEmpty ==
  connectionState = DISCONNECTED => transcript = <<>>

====
